---- MODULE Spec2Model ----
(***************************************************************************)
(* A model of go-elasticsearch-testfixtures: the fixture parser            *)
(* (parseFixtures and its helpers), the Loader (New, Load, Clean) and the  *)
(* four gateway helpers (deleteIndex, createIndex, bulkInsertDocuments,    *)
(* refreshIndex) acting on an Elasticsearch store.                         *)
(*                                                                         *)
(* Conventions.  An optional value (a nil-able json.RawMessage, a nil-able *)
(* request body) is a sequence of length 0 (nil) or 1.  A Go error is a    *)
(* sequence of message parts, outermost wrapper first; the nil error is    *)
(* the empty sequence.  A Go map[string]interface{} is a function whose    *)
(* domain is a finite set of strings.                                      *)
(***************************************************************************)
EXTENDS Integers, Sequences, FiniteSets, Bags, TLC

(***************************************************************************)
(* Bounds of the model.                                                    *)
(***************************************************************************)
\* how many documents a client other than the Loader adds to one index
MaxExtra == 1

\* how many invocations of Load and Clean one run of the model begins
MaxRuns == 3

(***************************************************************************)
(* Generic helpers.                                                        *)
(***************************************************************************)
NoErr == <<>>

Nil == <<>>

Some(x) == <<x>>

Wrap(prefix, err) == prefix \o err

RECURSIVE SeqSum(_)
SeqSum(s) == IF s = <<>> THEN 0 ELSE Head(s) + SeqSum(Tail(s))

HasSuffix(s, suf) ==
    /\ Len(s) >= Len(suf)
    /\ SubSeq(s, Len(s) - Len(suf) + 1, Len(s)) = suf

HasPrefix(s, pre) ==
    /\ Len(s) >= Len(pre)
    /\ SubSeq(s, 1, Len(pre)) = pre

(***************************************************************************)
(* Values of a YAML record (interface{} values after yaml.Unmarshal).      *)
(***************************************************************************)
StrV(s) == [t |-> "str", s |-> s, i |-> 0]

IntV(i) == [t |-> "int", s |-> "", i |-> i]

\* a nested mapping with a non-string key: yaml.v3 decodes it to
\* map[interface{}]interface{}, which encoding/json cannot marshal
BadMapV == [t |-> "ifacemap", s |-> "", i |-> 0]

Digits == <<"0", "1", "2", "3", "4", "5", "6", "7", "8", "9">>

RECURSIVE Itoa(_)
Itoa(n) == IF n < 10 THEN Digits[n + 1] ELSE Itoa(n \div 10) \o Digits[(n % 10) + 1]

\* fmt.Sprintf("%v", id)
Sprintf(v) ==
    CASE v.t = "str" -> v.s
      [] v.t = "int" -> IF v.i < 0 THEN "-" \o Itoa(0 - v.i) ELSE Itoa(v.i)
      [] OTHER -> "map[]"

\* delete(m, key)
MapDelete(m, key) == [k \in (DOMAIN m) \ {key} |-> m[k]]

(***************************************************************************)
(* The file system the parser reads.  A disk maps a path to the listing of *)
(* that directory; a listing is the sequence of its entries in os.ReadDir  *)
(* order (sorted by name).  A file's bytes are abstracted to what the      *)
(* parser asks of them: whether json.Valid accepts them, whether           *)
(* yaml.Unmarshal into []map[string]interface{} accepts them and with what *)
(* result, and a token for the bytes themselves.                           *)
(***************************************************************************)
mappingFile == "_mapping.json"

settingsFile == "_settings.json"

FileE(name, raw, jsonValid, yamlOk, docs) ==
    [name |-> name, isDir |-> FALSE, kids |-> <<>>, raw |-> raw,
     jsonValid |-> jsonValid, yamlOk |-> yamlOk, docs |-> docs]

DirE(name, kids) ==
    [name |-> name, isDir |-> TRUE, kids |-> kids, raw |-> "",
     jsonValid |-> FALSE, yamlOk |-> FALSE, docs |-> <<>>]

JsonFile(name, raw) == FileE(name, raw, TRUE, FALSE, <<>>)

YamlFile(name, docs) == FileE(name, "yaml", FALSE, TRUE, docs)

BadFile(name) == FileE(name, "{invalid}", FALSE, FALSE, <<>>)

\* filepath.Join(dir, name)
Join(dir, name) == dir \o "/" \o name

\* the positions of the entry called name in a listing (at most one)
Find(entries, name) == {i \in 1..Len(entries) : entries[i].name = name}

(***************************************************************************)
(* parseYAMLDocuments: one record-source file to its documents.            *)
(***************************************************************************)
\* ExtractID without the delete of "_id" from the body
ExtractIDKeepsKey(raw) ==
    IF "_id" \in DOMAIN raw
    THEN [ID |-> Sprintf(raw["_id"]), Body |-> raw]
    ELSE [ID |-> "", Body |-> raw]

ExtractID(raw) ==
    IF "_id" \in DOMAIN raw
    THEN [ID |-> Sprintf(raw["_id"]), Body |-> MapDelete(raw, "_id")]
    ELSE [ID |-> "", Body |-> raw]

parseYAMLDocuments(file) ==
    IF ~file.yamlOk
    THEN [docs |-> <<>>, err |-> <<"unmarshaling YAML">>]
    ELSE [docs |-> [i \in 1..Len(file.docs) |-> ExtractID(file.docs[i])],
          err |-> NoErr]

(***************************************************************************)
(* parseDocumentFiles: the loop over a collection directory's entries.     *)
(***************************************************************************)
\* IsDocumentFile without the check of the "_" prefix
IsDocumentFileNoPrefix(entry) ==
    /\ ~entry.isDir
    /\ (HasSuffix(entry.name, ".yml") \/ HasSuffix(entry.name, ".yaml"))

IsDocumentFile(entry) ==
    /\ ~entry.isDir
    /\ (HasSuffix(entry.name, ".yml") \/ HasSuffix(entry.name, ".yaml"))
    /\ ~HasPrefix(entry.name, "_")

\* parseDocumentLoop putting the records of a file before those it has
RECURSIVE parseDocumentLoopPrepend(_, _)
parseDocumentLoopPrepend(entries, docs) ==
    IF entries = <<>> THEN [docs |-> docs, err |-> NoErr]
    ELSE LET entry == Head(entries) IN
         IF ~IsDocumentFile(entry) THEN parseDocumentLoopPrepend(Tail(entries), docs)
         ELSE LET r == parseYAMLDocuments(entry) IN
              IF r.err # NoErr
              THEN [docs |-> <<>>,
                    err |-> Wrap(<<"parsing document file", entry.name>>, r.err)]
              ELSE parseDocumentLoopPrepend(Tail(entries), r.docs \o docs)

RECURSIVE parseDocumentLoop(_, _)
parseDocumentLoop(entries, docs) ==
    IF entries = <<>> THEN [docs |-> docs, err |-> NoErr]
    ELSE LET entry == Head(entries) IN
         IF ~IsDocumentFile(entry) THEN parseDocumentLoop(Tail(entries), docs)
         ELSE LET r == parseYAMLDocuments(entry) IN
              IF r.err # NoErr
              THEN [docs |-> <<>>,
                    err |-> Wrap(<<"parsing document file", entry.name>>, r.err)]
              ELSE parseDocumentLoop(Tail(entries), docs \o r.docs)

parseDocumentFiles(entries) == parseDocumentLoop(entries, <<>>)

(***************************************************************************)
(* readJSONFile and parseIndexDir.                                         *)
(***************************************************************************)
\* readJSONFile without json.Valid
readJSONFileUnchecked(entries, dir, fname) ==
    LET at == Find(entries, fname) IN
    IF at = {}
    THEN [val |-> Nil, err |-> <<"open", Join(dir, fname), "ENOENT">>, notExist |-> TRUE]
    ELSE LET e == entries[CHOOSE i \in at : TRUE] IN
         IF e.isDir
         THEN [val |-> Nil, err |-> <<"read", Join(dir, fname), "EISDIR">>, notExist |-> FALSE]
         ELSE [val |-> Some(e.raw), err |-> NoErr, notExist |-> FALSE]

readJSONFile(entries, dir, fname) ==
    LET at == Find(entries, fname) IN
    IF at = {}
    THEN [val |-> Nil, err |-> <<"open", Join(dir, fname), "ENOENT">>, notExist |-> TRUE]
    ELSE LET e == entries[CHOOSE i \in at : TRUE] IN
         IF e.isDir
         THEN [val |-> Nil, err |-> <<"read", Join(dir, fname), "EISDIR">>, notExist |-> FALSE]
         ELSE IF ~e.jsonValid
         THEN [val |-> Nil, err |-> <<"invalid JSON in", Join(dir, fname)>>, notExist |-> FALSE]
         ELSE [val |-> Some(e.raw), err |-> NoErr, notExist |-> FALSE]

NoFixture == [name |-> "", mapping |-> Nil, settings |-> Nil, documents |-> <<>>]

parseIndexDir(entries, dir, name) ==
    LET m == readJSONFile(entries, dir, mappingFile)
        s == readJSONFile(entries, dir, settingsFile)
        d == parseDocumentFiles(entries)
    IN  IF m.err # NoErr /\ ~m.notExist
        THEN [f |-> NoFixture, err |-> Wrap(<<"reading", mappingFile>>, m.err)]
        ELSE IF s.err # NoErr /\ ~s.notExist
        THEN [f |-> NoFixture, err |-> Wrap(<<"reading", settingsFile>>, s.err)]
        ELSE IF d.err # NoErr
        THEN [f |-> NoFixture, err |-> d.err]
        ELSE [f |-> [name |-> name, mapping |-> m.val, settings |-> s.val,
                     documents |-> d.docs],
              err |-> NoErr]

(***************************************************************************)
(* parseFixtures: the loop over the root directory's entries.              *)
(***************************************************************************)
\* parseFixturesLoop going on to the next directory when one fails
RECURSIVE parseFixturesLoopSkip(_, _, _)
parseFixturesLoopSkip(entries, dir, fixtures) ==
    IF entries = <<>> THEN [fixtures |-> fixtures, err |-> NoErr]
    ELSE LET entry == Head(entries) IN
         IF ~entry.isDir THEN parseFixturesLoopSkip(Tail(entries), dir, fixtures)
         ELSE LET r == parseIndexDir(entry.kids, Join(dir, entry.name), entry.name) IN
              IF r.err # NoErr
              THEN parseFixturesLoopSkip(Tail(entries), dir, fixtures)
              ELSE parseFixturesLoopSkip(Tail(entries), dir, Append(fixtures, r.f))

RECURSIVE parseFixturesLoop(_, _, _)
parseFixturesLoop(entries, dir, fixtures) ==
    IF entries = <<>> THEN [fixtures |-> fixtures, err |-> NoErr]
    ELSE LET entry == Head(entries) IN
         IF ~entry.isDir THEN parseFixturesLoop(Tail(entries), dir, fixtures)
         ELSE LET r == parseIndexDir(entry.kids, Join(dir, entry.name), entry.name) IN
              IF r.err # NoErr
              THEN [fixtures |-> <<>>, err |-> Wrap(<<"parsing index", entry.name>>, r.err)]
              ELSE parseFixturesLoop(Tail(entries), dir, Append(fixtures, r.f))

\* parseFixtures without the check for an empty result
parseFixturesAllowEmpty(fs, dir) ==
    IF dir \notin DOMAIN fs
    THEN [fixtures |-> <<>>, err |-> <<"reading fixtures directory", dir, "ENOENT">>]
    ELSE parseFixturesLoop(fs[dir], dir, <<>>)

parseFixtures(fs, dir) ==
    IF dir \notin DOMAIN fs
    THEN [fixtures |-> <<>>, err |-> <<"reading fixtures directory", dir, "ENOENT">>]
    ELSE LET r == parseFixturesLoop(fs[dir], dir, <<>>) IN
         IF r.err # NoErr THEN r
         ELSE IF Len(r.fixtures) = 0
         THEN [fixtures |-> <<>>, err |-> <<"no index directories found in", dir>>]
         ELSE r

(***************************************************************************)
(* The Elasticsearch store, as the four requests of the Loader see it.     *)
(* An index holds its mapping and settings, a bag of documents (id, JSON   *)
(* source; the id is "" for a document whose id the store generated) and   *)
(* whether it has writes that no refresh has made visible yet.  A request  *)
(* can also suffer a fault that is none of the Loader's doing: the         *)
(* transport fails (the client returns an error) or the store answers with *)
(* an error status; neither changes the store.  A request made with a      *)
(* context that is cancelled is not sent: the client returns the error of  *)
(* the context ("canceled").                                               *)
(***************************************************************************)
Faults == {"none", "transport", "status"}

\* what can befall a bulk request: a fault, or the store rejecting items
BulkFaults == Faults \cup {"items"}

Absent ==
    [exists |-> FALSE, mapping |-> Nil, settings |-> Nil, docs |-> EmptyBag,
     unrefreshed |-> FALSE]

NewIndex(mapping, settings) ==
    [exists |-> TRUE, mapping |-> mapping, settings |-> settings, docs |-> EmptyBag,
     unrefreshed |-> FALSE]

\* a response of the client: a transport error, or an HTTP status
Response(fault, status) ==
    CASE fault = "transport" -> [err |-> <<"EOF">>, status |-> 0]
      [] fault = "canceled"  -> [err |-> <<"context canceled">>, status |-> 0]
      [] fault = "status"    -> [err |-> NoErr, status |-> 503]
      [] OTHER               -> [err |-> NoErr, status |-> status]

\* esapi.Response.IsError
IsError(res) == res.status > 299

\* the indices that the path segment name of a request addresses: esapi
\* writes the index names of a request into the path joined by commas, and
\* the store reads the segment as a comma-separated list of index names, so
\* a name that holds a comma addresses several indices
RECURSIVE TargetsFrom(_, _, _)
TargetsFrom(name, i, cur) ==
    IF i > Len(name) THEN {cur}
    ELSE IF SubSeq(name, i, i) = ","
    THEN {cur} \cup TargetsFrom(name, i + 1, "")
    ELSE TargetsFrom(name, i + 1, cur \o SubSeq(name, i, i))

Targets(name) == TargetsFrom(name, 1, "")

\* DELETE /<name>?ignore_unavailable=<flag>
EsIndicesDelete(st, name, ignoreUnavailable, fault) ==
    LET present == {n \in Targets(name) \cap DOMAIN st : st[n].exists} IN
    IF fault # "none" THEN [store |-> st, res |-> Response(fault, 0)]
    ELSE IF present # Targets(name) /\ ~ignoreUnavailable
    THEN [store |-> st, res |-> Response(fault, 404)]
    ELSE [store |-> [n \in DOMAIN st |-> IF n \in present THEN Absent ELSE st[n]],
          res |-> Response(fault, 200)]

\* PUT /<name> with an optional body {"mappings": ..., "settings": ...}
EsIndicesCreate(st, name, body, fault) ==
    IF fault # "none" THEN [store |-> st, res |-> Response(fault, 0)]
    ELSE IF Targets(name) # {name} \/ st[name].exists
    THEN [store |-> st, res |-> Response(fault, 400)]
    ELSE LET obj == IF body = Nil THEN <<>> ELSE body[1]
             m == IF "mappings" \in DOMAIN obj THEN Some(obj["mappings"]) ELSE Nil
             g == IF "settings" \in DOMAIN obj THEN Some(obj["settings"]) ELSE Nil
         IN  [store |-> [st EXCEPT ![name] = NewIndex(m, g)], res |-> Response(fault, 200)]

\* POST /<name>/_refresh
EsIndicesRefresh(st, name, fault) ==
    LET present == {n \in Targets(name) \cap DOMAIN st : st[n].exists} IN
    IF fault # "none" THEN [store |-> st, res |-> Response(fault, 0)]
    ELSE IF present # Targets(name)
    THEN [store |-> st, res |-> Response(fault, 404)]
    ELSE [store |-> [n \in DOMAIN st |->
                        IF n \in present THEN [st[n] EXCEPT !.unrefreshed = FALSE]
                        ELSE st[n]],
          res |-> Response(fault, 200)]

\* one "index" item of a bulk request: with an id it replaces the document
\* of that id, without one it adds a document under a generated id
IndexDoc(docs, id, source) ==
    LET kept == IF id = "" THEN docs
                ELSE [d \in {x \in DOMAIN docs : x.id # id} |-> docs[d]]
    IN  kept (+) SetToBag({[id |-> id, source |-> source]})

RECURSIVE IndexAll(_, _, _)
IndexAll(docs, items, rejected) ==
    IF items = <<>> THEN docs
    ELSE LET it == Head(items) IN
         IndexAll(IF it.pos \in rejected THEN docs
                  ELSE IndexDoc(docs, it.DocumentID, it.Body),
                  Tail(items), rejected)

\* POST /_bulk for one index: the items not in rejected are written; an
\* index that does not exist is created on the fly with no mapping and no
\* settings (action.auto_create_index)
EsBulk(st, name, items, rejected, fault) ==
    IF fault # "none" \/ items = <<>> \/ Targets(name) # {name} THEN st
    ELSE LET ix == IF st[name].exists THEN st[name] ELSE NewIndex(Nil, Nil)
             written == {i \in 1..Len(items) : items[i].pos \notin rejected}
         IN  IF written = {} /\ ~st[name].exists THEN st
             ELSE [st EXCEPT ![name] =
                      [ix EXCEPT !.docs = IndexAll(ix.docs, items, rejected),
                                 !.unrefreshed = ix.unrefreshed \/ written # {}]]

(***************************************************************************)
(* The gateway helpers of the Loader.  Each returns the store after the    *)
(* request and the error the helper returns.                               *)
(***************************************************************************)
\* checkResponse
checkResponse(res) ==
    IF ~IsError(res) THEN NoErr
    ELSE <<"elasticsearch error", Itoa(res.status)>>

\* the shared tail of deleteIndex, createIndex and refreshIndex
Outcome(r, what, name) ==
    IF r.res.err # NoErr
    THEN [store |-> r.store, err |-> Wrap(<<what, name>>, r.res.err)]
    ELSE IF checkResponse(r.res) # NoErr
    THEN [store |-> r.store, err |-> Wrap(<<what, name>>, checkResponse(r.res))]
    ELSE [store |-> r.store, err |-> NoErr]

\* deleteIndex without WithIgnoreUnavailable(true)
deleteIndexStrict(st, name, fault) ==
    Outcome(EsIndicesDelete(st, name, FALSE, fault), "deleting index", name)

deleteIndex(st, name, fault) ==
    Outcome(EsIndicesDelete(st, name, TRUE, fault), "deleting index", name)

\* json.Valid, on the tokens that stand for file contents
JsonValid(raw) == raw # "{invalid}" /\ raw # ""

\* what json.Marshal writes for a json.RawMessage: the bytes compacted,
\* that is without the white space between tokens and with <, > and &
\* escaped; "'" stands for the double quote of JSON
RECURSIVE CompactFrom(_, _, _)
CompactFrom(raw, i, inString) ==
    IF i > Len(raw) THEN ""
    ELSE LET c == SubSeq(raw, i, i) IN
         CASE c = "'" -> c \o CompactFrom(raw, i + 1, ~inString)
           [] c = " " /\ ~inString -> CompactFrom(raw, i + 1, inString)
           [] c = "<" -> "\\u003c" \o CompactFrom(raw, i + 1, inString)
           [] c = ">" -> "\\u003e" \o CompactFrom(raw, i + 1, inString)
           [] c = "&" -> "\\u0026" \o CompactFrom(raw, i + 1, inString)
           [] OTHER -> c \o CompactFrom(raw, i + 1, inString)

Compact(raw) == CompactFrom(raw, 1, FALSE)

\* buildCreateIndexBody that looks at the settings only without a mapping
buildCreateIndexBodyElseIf(mapping, settings) ==
    IF mapping = Nil /\ settings = Nil THEN [body |-> Nil, err |-> NoErr]
    ELSE LET keys == IF mapping # Nil THEN {"mappings"} ELSE {"settings"}
             obj == [k \in keys |-> IF k = "mappings" THEN mapping[1] ELSE settings[1]]
         IN  IF \E k \in keys : ~JsonValid(obj[k])
             THEN [body |-> Nil, err |-> <<"json: error calling MarshalJSON">>]
             ELSE [body |-> Some([k \in keys |-> Compact(obj[k])]), err |-> NoErr]

buildCreateIndexBody(mapping, settings) ==
    IF mapping = Nil /\ settings = Nil THEN [body |-> Nil, err |-> NoErr]
    ELSE LET keys == (IF mapping # Nil THEN {"mappings"} ELSE {})
                     \cup (IF settings # Nil THEN {"settings"} ELSE {})
             obj == [k \in keys |-> IF k = "mappings" THEN mapping[1] ELSE settings[1]]
         IN  IF \E k \in keys : ~JsonValid(obj[k])
             THEN [body |-> Nil, err |-> <<"json: error calling MarshalJSON">>]
             ELSE [body |-> Some([k \in keys |-> Compact(obj[k])]), err |-> NoErr]

createIndex(st, name, mapping, settings, fault) ==
    LET b == buildCreateIndexBody(mapping, settings) IN
    IF b.err # NoErr
    THEN [store |-> st, err |-> Wrap(<<"building request body">>, b.err)]
    ELSE Outcome(EsIndicesCreate(st, name, b.body, fault), "creating index", name)

refreshIndex(st, name, fault) ==
    Outcome(EsIndicesRefresh(st, name, fault), "refreshing index", name)

(***************************************************************************)
(* bulkInsertDocuments.  The esutil.BulkIndexer queues the items that Add  *)
(* hands it and sends them when Close flushes; rejected is the set of      *)
(* items the store rejects one by one (OnFailure is called for each), and  *)
(* a fault fails the whole bulk request (every item is counted in          *)
(* Stats().NumFailed; the messages, if the indexer reports any, are not    *)
(* per record).  Add and Close take the context of the Loader: with the    *)
(* context cancelled Add may return its error and Close returns it before  *)
(* it flushes.  A return from inside the loop leaves the indexer as it is: *)
(* created, holding the items added so far, not closed.                    *)
(***************************************************************************)
JsonValue(v) == IF v.t = "str" THEN "'" \o v.s \o "'" ELSE Sprintf(v)

\* json.Marshal(doc.Body)
jsonMarshal(body) ==
    IF \E k \in DOMAIN body : body[k].t = "ifacemap"
    THEN [json |-> <<>>, err |-> <<"json: unsupported type">>]
    ELSE [json |-> [k \in DOMAIN body |-> JsonValue(body[k])], err |-> NoErr]

\* BulkItem that sets DocumentID to the position of the record
BulkItemPositionID(docs, i) ==
    [pos |-> i, Action |-> "index", Body |-> jsonMarshal(docs[i].Body).json,
     DocumentID |-> Itoa(i)]

\* BulkItem that never sets DocumentID
BulkItemNoID(docs, i) ==
    [pos |-> i, Action |-> "index", Body |-> jsonMarshal(docs[i].Body).json,
     DocumentID |-> ""]

BulkItem(docs, i) ==
    [pos |-> i, Action |-> "index", Body |-> jsonMarshal(docs[i].Body).json,
     DocumentID |-> IF docs[i].ID # "" THEN docs[i].ID ELSE ""]

\* the message OnFailure appends to bulkErrors for a rejected item
FailureMessage(i) == "[400] item " \o Itoa(i)

RECURSIVE JoinErrors(_, _, _)
JoinErrors(n, i, rejected) ==
    IF i > n THEN <<>>
    ELSE (IF i \in rejected THEN <<FailureMessage(i)>> ELSE <<>>)
         \o JoinErrors(n, i + 1, rejected)

\* bulkInsertDocuments without the check of stats.NumFailed
bulkInsertDocumentsCallbacksOnly(st, indexName, docs, rejected, fault, sched) ==
    LET n == Len(docs)
        unmarshalable == {i \in 1..n : jsonMarshal(docs[i].Body).err # NoErr}
        \* the first record json.Marshal fails on, the first item Add fails on
        bad == IF unmarshalable = {} THEN n + 1
               ELSE CHOOSE i \in unmarshalable : \A k \in unmarshalable : i <= k
        stop == IF fault = "canceled" THEN sched.stop ELSE n + 1
    IN
    IF n = 0
    THEN [store |-> st, err |-> NoErr, added |-> 0,
          opened |-> FALSE, closed |-> FALSE, sent |-> FALSE]
    ELSE IF bad <= n /\ bad <= stop
    THEN [store |-> st,
          err |-> Wrap(<<"marshaling document">>, jsonMarshal(docs[bad].Body).err),
          added |-> bad - 1, opened |-> TRUE, closed |-> FALSE, sent |-> FALSE]
    ELSE IF stop <= n
    THEN [store |-> st,
          err |-> Wrap(<<"adding document to bulk indexer">>, <<"context canceled">>),
          added |-> stop - 1, opened |-> TRUE, closed |-> FALSE, sent |-> FALSE]
    ELSE IF fault = "canceled"
    THEN [store |-> st,
          err |-> Wrap(<<"closing bulk indexer for", indexName>>, <<"context canceled">>),
          added |-> n, opened |-> TRUE, closed |-> FALSE, sent |-> FALSE]
    ELSE LET items == [i \in 1..n |-> BulkItem(docs, i)]
             after == EsBulk(st, indexName, items, rejected, fault)
             bulkErrors == IF fault # "none" THEN <<>> ELSE JoinErrors(n, 1, sched.heard)
             NumFailed == IF fault # "none" THEN n ELSE Cardinality(rejected \cap (1..n))
             err == IF Len(bulkErrors) > 0
                    THEN Wrap(<<"bulk insert errors for", indexName>>, bulkErrors)
                    ELSE NoErr
         IN  [store |-> after, err |-> err, added |-> n, opened |-> TRUE,
              closed |-> TRUE, sent |-> TRUE]

\* bulkInsertDocuments taking an empty list of documents for a failure
bulkInsertDocumentsEmptyFails(st, indexName, docs, rejected, fault, sched) ==
    LET n == Len(docs)
        unmarshalable == {i \in 1..n : jsonMarshal(docs[i].Body).err # NoErr}
        \* the first record json.Marshal fails on, the first item Add fails on
        bad == IF unmarshalable = {} THEN n + 1
               ELSE CHOOSE i \in unmarshalable : \A k \in unmarshalable : i <= k
        stop == IF fault = "canceled" THEN sched.stop ELSE n + 1
    IN
    IF n = 0
    THEN [store |-> st, err |-> <<"bulk insert for", indexName, "no documents">>, added |-> 0,
          opened |-> FALSE, closed |-> FALSE, sent |-> FALSE]
    ELSE IF bad <= n /\ bad <= stop
    THEN [store |-> st,
          err |-> Wrap(<<"marshaling document">>, jsonMarshal(docs[bad].Body).err),
          added |-> bad - 1, opened |-> TRUE, closed |-> FALSE, sent |-> FALSE]
    ELSE IF stop <= n
    THEN [store |-> st,
          err |-> Wrap(<<"adding document to bulk indexer">>, <<"context canceled">>),
          added |-> stop - 1, opened |-> TRUE, closed |-> FALSE, sent |-> FALSE]
    ELSE IF fault = "canceled"
    THEN [store |-> st,
          err |-> Wrap(<<"closing bulk indexer for", indexName>>, <<"context canceled">>),
          added |-> n, opened |-> TRUE, closed |-> FALSE, sent |-> FALSE]
    ELSE LET items == [i \in 1..n |-> BulkItem(docs, i)]
             after == EsBulk(st, indexName, items, rejected, fault)
             bulkErrors == IF fault # "none" THEN <<>> ELSE JoinErrors(n, 1, sched.heard)
             NumFailed == IF fault # "none" THEN n ELSE Cardinality(rejected \cap (1..n))
             err == IF Len(bulkErrors) > 0
                    THEN Wrap(<<"bulk insert errors for", indexName>>, bulkErrors)
                    ELSE IF NumFailed > 0
                    THEN <<"bulk insert for", indexName, Itoa(NumFailed), "documents failed">>
                    ELSE NoErr
         IN  [store |-> after, err |-> err, added |-> n, opened |-> TRUE,
              closed |-> TRUE, sent |-> TRUE]

\* sched is what the schedule of the goroutines decides: heard, the rejected
\* items whose message is in bulkErrors after Close (RacingAppends), and
\* stop, the item at which Add returns the error of a cancelled context
\* (Add selects between ctx.Done() and the queue: with the context cancelled
\* and room in the queue either can be taken; Len(docs) + 1: Add never
\* fails, and Close returns the error of the context before any flush)
bulkInsertDocuments(st, indexName, docs, rejected, fault, sched) ==
    LET n == Len(docs)
        unmarshalable == {i \in 1..n : jsonMarshal(docs[i].Body).err # NoErr}
        \* the first record json.Marshal fails on, the first item Add fails on
        bad == IF unmarshalable = {} THEN n + 1
               ELSE CHOOSE i \in unmarshalable : \A k \in unmarshalable : i <= k
        stop == IF fault = "canceled" THEN sched.stop ELSE n + 1
    IN
    IF n = 0
    THEN [store |-> st, err |-> NoErr, added |-> 0,
          opened |-> FALSE, closed |-> FALSE, sent |-> FALSE]
    ELSE IF bad <= n /\ bad <= stop
    THEN [store |-> st,
          err |-> Wrap(<<"marshaling document">>, jsonMarshal(docs[bad].Body).err),
          added |-> bad - 1, opened |-> TRUE, closed |-> FALSE, sent |-> FALSE]
    ELSE IF stop <= n
    THEN [store |-> st,
          err |-> Wrap(<<"adding document to bulk indexer">>, <<"context canceled">>),
          added |-> stop - 1, opened |-> TRUE, closed |-> FALSE, sent |-> FALSE]
    ELSE IF fault = "canceled"
    THEN [store |-> st,
          err |-> Wrap(<<"closing bulk indexer for", indexName>>, <<"context canceled">>),
          added |-> n, opened |-> TRUE, closed |-> FALSE, sent |-> FALSE]
    ELSE LET items == [i \in 1..n |-> BulkItem(docs, i)]
             after == EsBulk(st, indexName, items, rejected, fault)
             bulkErrors == IF fault # "none" THEN <<>> ELSE JoinErrors(n, 1, sched.heard)
             NumFailed == IF fault # "none" THEN n ELSE Cardinality(rejected \cap (1..n))
             err == IF Len(bulkErrors) > 0
                    THEN Wrap(<<"bulk insert errors for", indexName>>, bulkErrors)
                    ELSE IF NumFailed > 0
                    THEN <<"bulk insert for", indexName, Itoa(NumFailed), "documents failed">>
                    ELSE NoErr
         IN  [store |-> after, err |-> err, added |-> n, opened |-> TRUE,
              closed |-> TRUE, sent |-> TRUE]

(***************************************************************************)
(* The fixture directories and the store contents the model starts from.   *)
(***************************************************************************)
Alice == ("_id" :> StrV("1")) @@ ("name" :> StrV("Alice"))

Bob == ("_id" :> StrV("2")) @@ ("name" :> StrV("Bob"))

\* an integer _id that formats to the id Alice declares
Carol == ("_id" :> IntV(1)) @@ ("name" :> StrV("Carol"))

Laptop == ("title" :> StrV("Laptop"))

Book == ("_id" :> StrV("p3")) @@ ("title" :> StrV("Go Programming"))

SampleDisk ==
    ("testdata/fixtures" :>
        << DirE("products",
                << YamlFile("001_electronics.yml", <<Laptop>>),
                   YamlFile("002_books.yml", <<Book>>),
                   JsonFile(mappingFile, "products_mapping") >>),
           DirE("users",
                << JsonFile(mappingFile, "users_mapping"),
                   JsonFile(settingsFile, "users_settings"),
                   YamlFile("documents.yml", <<Alice, Bob>>) >>) >>)
    @@
    ("testdata/overlap" :>
        << FileE("README.md", "text", FALSE, FALSE, <<>>),
           DirE("products", << JsonFile(settingsFile, "{ 'number_of_replicas': 0 }") >>),
           DirE("users", << YamlFile("documents.yml", <<Alice, Carol>>) >>) >>)
    @@
    ("testdata/badyaml" :>
        << DirE("bad_index", << BadFile("documents.yml") >>) >>)
    @@
    ("testdata/empty" :>
        << FileE("notes.txt", "text", FALSE, FALSE, <<>>) >>)

DirArgs == (DOMAIN SampleDisk) \cup {"", "/nonexistent/path"}

\* the index names the store knows: those of the fixtures and one more
Names == {"products", "users", "other"}

ExtraSource == ("name" :> "'Extra User'")

\* an index left over from an earlier run: another mapping, and a
\* document under an id the fixtures use too
Stale ==
    [exists |-> TRUE, mapping |-> Some("old_mapping"), settings |-> Nil,
     docs |-> SetToBag({[id |-> "1", source |-> ("name" :> "'Old'")]}),
     unrefreshed |-> FALSE]

InitialStores == {st \in [Names -> {Absent, Stale}] : st["other"].exists}

\* the indices a client other than the Loader writes to
ForeignTargets == {"users"}

(***************************************************************************)
(* The state.                                                              *)
(***************************************************************************)
VARIABLES
    disk,       \* the file system the fixtures are read from
    store,      \* the Elasticsearch store: index name -> index
    loader,     \* the *Loader that New returned: Nil, or Some(Loader)
    construct,  \* the last call of New: its arguments and what it returned
    inv,        \* per calling goroutine: its invocation of Load or Clean, while
                \* it runs and in the state in which it has just returned
    hist,       \* the last three returns of Load/Clean, the latest last
    runs,       \* how many invocations of Load and Clean have begun
    ctxDone     \* whether the context given to WithContext has been cancelled

vars == <<disk, store, loader, construct, inv, hist, runs, ctxDone>>

Threads == {"t1", "t2"}

\* what bulkInsertDocuments did in an invocation of Load, the last time it
\* ran: the records it was given (n), the items the store rejected, the
\* items whose message is in bulkErrors (heard), how many items Add took,
\* whether the BulkIndexer was created, whether Close ran it to completion
\* and whether a bulk request was sent
NoBatch ==
    [name |-> "", n |-> 0, rejected |-> {}, heard |-> {}, added |-> 0,
     opened |-> FALSE, closed |-> FALSE, sent |-> FALSE, err |-> NoErr]

Idle ==
    [op |-> "none", pc |-> "idle", idx |-> 0, err |-> NoErr, errs |-> <<>>,
     calls |-> <<>>, overlapped |-> FALSE,
     before |-> [n \in Names |-> Absent], batch |-> NoBatch]

NotConstructed ==
    [called |-> FALSE, client |-> "nil", opts |-> <<>>, err |-> NoErr,
     parserRan |-> FALSE]

\* what an invocation leaves in the history: tampered says whether another
\* client wrote to the store after it returned
Event(op, err) == [op |-> op, ok |-> err = NoErr, tampered |-> FALSE]

NoEvent == Event("none", NoErr)

Init ==
    /\ disk = SampleDisk
    /\ store \in InitialStores
    /\ loader = Nil
    /\ construct = NotConstructed
    /\ inv = [t \in Threads |-> Idle]
    /\ hist = <<NoEvent, NoEvent, NoEvent>>
    /\ runs = 0
    /\ ctxDone = FALSE

Active(t) == inv[t].pc \notin {"idle", "returned"}

\* the record of an invocation is kept for the one state in which it has
\* just returned
Settled == [u \in Threads |-> IF inv[u].pc = "returned" THEN Idle ELSE inv[u]]

\* the invocation e returned: it becomes the last one
Push(h, e) == <<h[2], h[3], e>>

\* a client other than the Loader wrote to the store after the last return
Tamper(h) == <<h[1], h[2], [h[3] EXCEPT !.tampered = TRUE]>>

(***************************************************************************)
(* Options and New.                                                        *)
(***************************************************************************)
Directory(dir) == [kind |-> "Directory", arg |-> dir]

WithContext(ctx) == [kind |-> "WithContext", arg |-> ctx]

\* opt(l): both options set one field and return a nil error
ApplyOption(l, opt) ==
    IF opt.kind = "Directory" THEN [l EXCEPT !.dir = opt.arg]
    ELSE [l EXCEPT !.ctx = opt.arg]

RECURSIVE ApplyOptions(_, _)
ApplyOptions(l, opts) ==
    IF opts = <<>> THEN l ELSE ApplyOptions(ApplyOption(l, Head(opts)), Tail(opts))

OptionLists ==
    {<<>>, <<WithContext("test-ctx")>>}
    \cup {<<Directory(d)>> : d \in DirArgs}
    \cup {<<Directory("testdata/fixtures"), WithContext("test-ctx")>>,
          <<Directory("testdata/fixtures"), Directory("")>>}

Clients == {"nil", "es"}

NewReturns(l, err, ran, client, opts) ==
    /\ loader' = l
    /\ construct' = [called |-> TRUE, client |-> client, opts |-> opts, err |-> err,
                     parserRan |-> ran]
    /\ UNCHANGED <<disk, ctxDone, store, inv, hist, runs>>

\* New returning the Loader it was building together with the parse error
NewHalfBuilt(client, opts) ==
    /\ loader = Nil
    /\ IF client = "nil"
       THEN NewReturns(Nil, <<"testfixtures: client must not be nil">>, FALSE, client, opts)
       ELSE LET l == ApplyOptions([client |-> client, dir |-> "", ctx |-> "background",
                                   fixtures |-> <<>>], opts)
            IN  IF l.dir = ""
                THEN NewReturns(Nil, <<"testfixtures: Directory option is required">>,
                                FALSE, client, opts)
                ELSE LET r == parseFixtures(disk, l.dir) IN
                     IF r.err # NoErr
                     THEN NewReturns(Some(l), Wrap(<<"testfixtures">>, r.err), TRUE,
                                     client, opts)
                     ELSE NewReturns(Some([l EXCEPT !.fixtures = r.fixtures]), NoErr, TRUE,
                                     client, opts)

\* New without the check of the directory path
NewNoDirCheck(client, opts) ==
    /\ loader = Nil
    /\ IF client = "nil"
       THEN NewReturns(Nil, <<"testfixtures: client must not be nil">>, FALSE, client, opts)
       ELSE LET l == ApplyOptions([client |-> client, dir |-> "", ctx |-> "background",
                                   fixtures |-> <<>>], opts)
                r == parseFixtures(disk, l.dir)
            IN  IF r.err # NoErr
                THEN NewReturns(Nil, Wrap(<<"testfixtures">>, r.err), TRUE, client, opts)
                ELSE NewReturns(Some([l EXCEPT !.fixtures = r.fixtures]), NoErr, TRUE,
                                client, opts)

New(client, opts) ==
    /\ loader = Nil
    /\ IF client = "nil"
       THEN NewReturns(Nil, <<"testfixtures: client must not be nil">>, FALSE, client, opts)
       ELSE LET l == ApplyOptions([client |-> client, dir |-> "", ctx |-> "background",
                                   fixtures |-> <<>>], opts)
            IN  IF l.dir = ""
                THEN NewReturns(Nil, <<"testfixtures: Directory option is required">>,
                                FALSE, client, opts)
                ELSE LET r == parseFixtures(disk, l.dir) IN
                     IF r.err # NoErr
                     THEN NewReturns(Nil, Wrap(<<"testfixtures">>, r.err), TRUE, client, opts)
                     ELSE NewReturns(Some([l EXCEPT !.fixtures = r.fixtures]), NoErr, TRUE,
                                     client, opts)

(***************************************************************************)
(* Load and Clean.  An invocation is a sequence of steps, one per gateway  *)
(* call; the step that ends the invocation also returns its error.         *)
(***************************************************************************)
Fixtures == loader[1].fixtures

\* an entry of the log of gateway calls of one invocation: existed says
\* whether the index was there when the request was made
Call(op, name, pos, err, fault) ==
    [op |-> op, name |-> name, pos |-> pos, ok |-> err = NoErr, fault |-> fault,
     existed |-> \E n \in Targets(name) \cap DOMAIN store : store[n].exists]

\* the invocation of t begins: serial says whether the callers serialize
\* access to the Loader
Begin(t, op, pc, serial) ==
    /\ loader # Nil
    /\ ~Active(t)
    /\ runs < MaxRuns
    /\ runs' = runs + 1
    /\ serial => \A u \in Threads : ~Active(u)
    /\ LET others == {u \in Threads \ {t} : Active(u)} IN
       inv' = [u \in Threads |->
                 IF u = t
                 THEN [Idle EXCEPT !.op = op, !.pc = pc, !.idx = 1,
                                   !.overlapped = others # {}, !.before = store]
                 ELSE IF u \in others THEN [inv[u] EXCEPT !.overlapped = TRUE]
                 ELSE Idle]
    /\ UNCHANGED <<disk, ctxDone, store, loader, construct, hist>>

\* a step of t that does not end its invocation
Continue(t, pc, idx, errs, call) ==
    /\ inv' = [Settled EXCEPT ![t].pc = pc, ![t].idx = idx, ![t].errs = errs,
                              ![t].calls = inv[t].calls \o call]
    /\ UNCHANGED <<hist, runs>>

\* the step of t that ends its invocation, returning err
Return(t, err, errs, call) ==
    /\ inv' = [Settled EXCEPT ![t].pc = "returned", ![t].err = err, ![t].errs = errs,
                              ![t].calls = inv[t].calls \o call]
    /\ hist' = Push(hist, Event(inv[t].op, err))
    /\ UNCHANGED runs

\* Continue and Return for the step that ran bulkInsertDocuments
ContinueBatch(t, pc, call, batch) ==
    /\ inv' = [Settled EXCEPT ![t].pc = pc, ![t].calls = inv[t].calls \o call,
                              ![t].batch = batch]
    /\ UNCHANGED <<hist, runs>>

ReturnBatch(t, err, call, batch) ==
    /\ inv' = [Settled EXCEPT ![t].pc = "returned", ![t].err = err,
                              ![t].calls = inv[t].calls \o call, ![t].batch = batch]
    /\ hist' = Push(hist, Event(inv[t].op, err))
    /\ UNCHANGED runs

\* every remote call is made with the context of the Loader (l.ctx): once
\* the context is cancelled the call fails with the error of the context,
\* whatever the store would have answered
CtxFault(fault) == IF ctxDone THEN "canceled" ELSE fault

\* OnFailure runs on the goroutine that flushes the item: a worker of the
\* BulkIndexer whose buffer is full, the ticker of the indexer, or Close.
\* It appends to bulkErrors, and nothing orders the appends of two
\* goroutines: when several items are rejected and their callbacks run at
\* the same time, an append can overwrite another one, so the messages in
\* bulkErrors after Close (heard) are those of any non-empty subset of the
\* rejected items (all of them when the callbacks run one after the other)
RacingAppends(rejected, heard) ==
    /\ heard \subseteq rejected
    /\ Cardinality(rejected) <= 1 => heard = rejected
    /\ rejected # {} => heard # {}

\* Load that writes the records without deleting and recreating first
LoadBeginNoReset(t, serial) == Begin(t, "Load", "populate", serial)

\* Load behind a lock that Load and Clean take on the Loader
LoadBeginLocked(t, serial) == Begin(t, "Load", "delete", TRUE)

LoadBegin(t, serial) == Begin(t, "Load", "delete", serial)

LoadDelete(t, fault) ==
    /\ inv[t].pc = "delete"
    /\ LET f == Fixtures[inv[t].idx]
           r == deleteIndex(store, f.name, CtxFault(fault))
           call == <<Call("delete", f.name, inv[t].idx, r.err, CtxFault(fault))>>
       IN  /\ store' = r.store
           /\ IF r.err # NoErr
              THEN Return(t, Wrap(<<"testfixtures">>, r.err), <<>>, call)
              ELSE Continue(t, "create", inv[t].idx, <<>>, call)
    /\ UNCHANGED <<disk, ctxDone, loader, construct>>

\* LoadCreate with the error of createIndex dropped
LoadCreateUnchecked(t, fault) ==
    /\ inv[t].pc = "create"
    /\ LET f == Fixtures[inv[t].idx]
           r == createIndex(store, f.name, f.mapping, f.settings, CtxFault(fault))
           call == <<Call("create", f.name, inv[t].idx, r.err, CtxFault(fault))>>
       IN  /\ store' = r.store
           /\ Continue(t, "populate", inv[t].idx, <<>>, call)
    /\ UNCHANGED <<disk, ctxDone, loader, construct>>

LoadCreate(t, fault) ==
    /\ inv[t].pc = "create"
    /\ LET f == Fixtures[inv[t].idx]
           r == createIndex(store, f.name, f.mapping, f.settings, CtxFault(fault))
           call == <<Call("create", f.name, inv[t].idx, r.err, CtxFault(fault))>>
       IN  /\ store' = r.store
           /\ IF r.err # NoErr
              THEN Return(t, Wrap(<<"testfixtures">>, r.err), <<>>, call)
              ELSE Continue(t, "populate", inv[t].idx, <<>>, call)
    /\ UNCHANGED <<disk, ctxDone, loader, construct>>

\* LoadPopulate that takes the records out of the fixture as it writes them
LoadPopulateDrains(t, fault) ==
    /\ inv[t].pc = "populate"
    /\ LET f == Fixtures[inv[t].idx]
           n == Len(f.documents)
           ctxFault == CtxFault(fault)
       IN
       \E rejected \in SUBSET (1..n), heard \in SUBSET (1..n), stop \in 1..(n + 1) :
       LET r == bulkInsertDocuments(store, f.name, f.documents, rejected,
                                    IF ctxFault = "items" THEN "none" ELSE ctxFault,
                                    [heard |-> heard, stop |-> stop])
           call == IF r.sent THEN <<Call("bulk", f.name, inv[t].idx, r.err, ctxFault)>>
                   ELSE <<>>
           batch == [name |-> f.name, n |-> n, rejected |-> rejected, heard |-> heard,
                     added |-> r.added, opened |-> r.opened, closed |-> r.closed,
                     sent |-> r.sent, err |-> r.err]
       IN  /\ (rejected # {}) <=> (ctxFault = "items")
           /\ RacingAppends(rejected, heard)
           /\ (stop <= n) => ctxFault = "canceled"
           /\ ~r.sent => ctxFault \in {"none", "canceled"}
           /\ store' = r.store
           /\ loader' = Some([loader[1] EXCEPT !.fixtures[inv[t].idx].documents = <<>>])
           /\ IF r.err # NoErr
              THEN ReturnBatch(t, Wrap(<<"testfixtures">>, r.err), call, batch)
              ELSE ContinueBatch(t, "refresh", call, batch)
    /\ UNCHANGED <<disk, ctxDone, construct>>

\* the fault "items" stands for the store rejecting some items of the bulk
\* request, any non-empty set of them; heard and stop are what the schedule
\* of the goroutines decides (RacingAppends, bulkInsertDocuments)
LoadPopulate(t, fault) ==
    /\ inv[t].pc = "populate"
    /\ LET f == Fixtures[inv[t].idx]
           n == Len(f.documents)
           ctxFault == CtxFault(fault)
       IN
       \E rejected \in SUBSET (1..n), heard \in SUBSET (1..n), stop \in 1..(n + 1) :
       LET r == bulkInsertDocuments(store, f.name, f.documents, rejected,
                                    IF ctxFault = "items" THEN "none" ELSE ctxFault,
                                    [heard |-> heard, stop |-> stop])
           call == IF r.sent THEN <<Call("bulk", f.name, inv[t].idx, r.err, ctxFault)>>
                   ELSE <<>>
           batch == [name |-> f.name, n |-> n, rejected |-> rejected, heard |-> heard,
                     added |-> r.added, opened |-> r.opened, closed |-> r.closed,
                     sent |-> r.sent, err |-> r.err]
       IN  /\ (rejected # {}) <=> (ctxFault = "items")
           /\ RacingAppends(rejected, heard)
           /\ (stop <= n) => ctxFault = "canceled"
           /\ ~r.sent => ctxFault \in {"none", "canceled"}
           /\ store' = r.store
           /\ IF r.err # NoErr
              THEN ReturnBatch(t, Wrap(<<"testfixtures">>, r.err), call, batch)
              ELSE ContinueBatch(t, "refresh", call, batch)
    /\ UNCHANGED <<disk, ctxDone, loader, construct>>

\* LoadRefresh that makes the refresh call once more when it failed
LoadRefreshRetries(t, fault) ==
    /\ inv[t].pc = "refresh"
    /\ LET f == Fixtures[inv[t].idx]
           r == refreshIndex(store, f.name, CtxFault(fault))
           call == <<Call("refresh", f.name, inv[t].idx, r.err, CtxFault(fault))>>
           last == inv[t].calls[Len(inv[t].calls)]
           retried == inv[t].calls # <<>> /\ last.op = "refresh" /\ last.pos = inv[t].idx
       IN  /\ store' = r.store
           /\ IF r.err # NoErr /\ ~retried
              THEN Continue(t, "refresh", inv[t].idx, <<>>, call)
              ELSE IF r.err # NoErr
              THEN Return(t, Wrap(<<"testfixtures">>, r.err), <<>>, call)
              ELSE IF inv[t].idx < Len(Fixtures)
              THEN Continue(t, "delete", inv[t].idx + 1, <<>>, call)
              ELSE Return(t, NoErr, <<>>, call)
    /\ UNCHANGED <<disk, ctxDone, loader, construct>>

\* LoadRefresh with the error of refreshIndex dropped
LoadRefreshUnchecked(t, fault) ==
    /\ inv[t].pc = "refresh"
    /\ LET f == Fixtures[inv[t].idx]
           r == refreshIndex(store, f.name, CtxFault(fault))
           call == <<Call("refresh", f.name, inv[t].idx, r.err, CtxFault(fault))>>
       IN  /\ store' = r.store
           /\ IF inv[t].idx < Len(Fixtures)
              THEN Continue(t, "delete", inv[t].idx + 1, <<>>, call)
              ELSE Return(t, NoErr, <<>>, call)
    /\ UNCHANGED <<disk, ctxDone, loader, construct>>

LoadRefresh(t, fault) ==
    /\ inv[t].pc = "refresh"
    /\ LET f == Fixtures[inv[t].idx]
           r == refreshIndex(store, f.name, CtxFault(fault))
           call == <<Call("refresh", f.name, inv[t].idx, r.err, CtxFault(fault))>>
       IN  /\ store' = r.store
           /\ IF r.err # NoErr
              THEN Return(t, Wrap(<<"testfixtures">>, r.err), <<>>, call)
              ELSE IF inv[t].idx < Len(Fixtures)
              THEN Continue(t, "delete", inv[t].idx + 1, <<>>, call)
              ELSE Return(t, NoErr, <<>>, call)
    /\ UNCHANGED <<disk, ctxDone, loader, construct>>

\* errors.Join(errs...): the messages of all errs, one per line
RECURSIVE ErrorsJoin(_)
ErrorsJoin(errs) ==
    IF errs = <<>> THEN <<>>
    ELSE IF Len(errs) = 1 THEN Head(errs)
    ELSE Head(errs) \o <<"\n">> \o ErrorsJoin(Tail(errs))

CleanBegin(t, serial) == Begin(t, "Clean", "clean", serial)

\* CleanDelete that polls the context before each call and stops when it is
\* cancelled
CleanDeletePolls(t, fault) ==
    /\ inv[t].pc = "clean"
    /\ LET f == Fixtures[inv[t].idx]
           r == deleteIndex(store, f.name, CtxFault(fault))
           call == <<Call("delete", f.name, inv[t].idx, r.err, CtxFault(fault))>>
           errs == IF r.err # NoErr THEN Append(inv[t].errs, r.err) ELSE inv[t].errs
       IN  IF ctxDone
           THEN /\ store' = store
                /\ Return(t, <<"testfixtures", "cleaning up", "context canceled">>,
                          inv[t].errs, <<>>)
           ELSE /\ store' = r.store
                /\ IF inv[t].idx < Len(Fixtures)
                   THEN Continue(t, "clean", inv[t].idx + 1, errs, call)
                   ELSE IF Len(errs) > 0
                   THEN Return(t, Wrap(<<"testfixtures", "cleaning up">>, ErrorsJoin(errs)),
                               errs, call)
                   ELSE Return(t, NoErr, errs, call)
    /\ UNCHANGED <<disk, ctxDone, loader, construct>>

\* CleanDelete that drops the errors of deleteIndex
CleanDeleteSwallow(t, fault) ==
    /\ inv[t].pc = "clean"
    /\ LET f == Fixtures[inv[t].idx]
           r == deleteIndex(store, f.name, CtxFault(fault))
           call == <<Call("delete", f.name, inv[t].idx, r.err, CtxFault(fault))>>
       IN  /\ store' = r.store
           /\ IF inv[t].idx < Len(Fixtures)
              THEN Continue(t, "clean", inv[t].idx + 1, <<>>, call)
              ELSE Return(t, NoErr, <<>>, call)
    /\ UNCHANGED <<disk, ctxDone, loader, construct>>

\* CleanDelete returning at the first failed delete, as Load does
CleanDeleteFailFast(t, fault) ==
    /\ inv[t].pc = "clean"
    /\ LET f == Fixtures[inv[t].idx]
           r == deleteIndex(store, f.name, CtxFault(fault))
           call == <<Call("delete", f.name, inv[t].idx, r.err, CtxFault(fault))>>
       IN  /\ store' = r.store
           /\ IF r.err # NoErr
              THEN Return(t, Wrap(<<"testfixtures", "cleaning up">>, r.err), <<r.err>>, call)
              ELSE IF inv[t].idx < Len(Fixtures)
              THEN Continue(t, "clean", inv[t].idx + 1, <<>>, call)
              ELSE Return(t, NoErr, <<>>, call)
    /\ UNCHANGED <<disk, ctxDone, loader, construct>>

CleanDelete(t, fault) ==
    /\ inv[t].pc = "clean"
    /\ LET f == Fixtures[inv[t].idx]
           r == deleteIndex(store, f.name, CtxFault(fault))
           call == <<Call("delete", f.name, inv[t].idx, r.err, CtxFault(fault))>>
           errs == IF r.err # NoErr THEN Append(inv[t].errs, r.err) ELSE inv[t].errs
       IN  /\ store' = r.store
           /\ IF inv[t].idx < Len(Fixtures)
              THEN Continue(t, "clean", inv[t].idx + 1, errs, call)
              ELSE IF Len(errs) > 0
              THEN Return(t, Wrap(<<"testfixtures", "cleaning up">>, ErrorsJoin(errs)),
                          errs, call)
              ELSE Return(t, NoErr, errs, call)
    /\ UNCHANGED <<disk, ctxDone, loader, construct>>

(***************************************************************************)
(* A client other than the Loader indexes one more document into an index  *)
(* between two invocations, with refresh=true (README, TestLoadResetsState)*)
(***************************************************************************)
Extras(ix) == BagCardinality([d \in {x \in DOMAIN ix.docs : x.source = ExtraSource} |-> ix.docs[d]])

ForeignIndex(name) ==
    /\ \A t \in Threads : ~Active(t)
    /\ Extras(store[name]) < MaxExtra
    /\ LET ix == IF store[name].exists THEN store[name] ELSE NewIndex(Nil, Nil) IN
       store' = [store EXCEPT ![name] =
                    [ix EXCEPT !.docs = IndexDoc(ix.docs, "", ExtraSource),
                               !.unrefreshed = FALSE]]
    /\ hist' = Tamper(hist)
    /\ inv' = Settled
    /\ UNCHANGED <<disk, ctxDone, loader, construct, runs>>

(***************************************************************************)
(* Specifications.  Spec: the callers serialize their invocations.         *)
(* SpecConcurrent: two goroutines call Load and Clean on the same Loader   *)
(* with nothing to keep them apart; the store suffers no fault.            *)
(***************************************************************************)
\* the goroutine that calls the Loader when the calls are serialized
Callers == {"t1"}

Next ==
    \/ \E client \in Clients, opts \in OptionLists : New(client, opts)
    \/ \E t \in Callers : LoadBegin(t, TRUE)
    \/ \E t \in Callers, fault \in Faults : LoadDelete(t, fault)
    \/ \E t \in Callers, fault \in Faults : LoadCreate(t, fault)
    \/ \E t \in Callers, fault \in BulkFaults : LoadPopulate(t, fault)
    \/ \E t \in Callers, fault \in Faults : LoadRefresh(t, fault)
    \/ \E t \in Callers : CleanBegin(t, TRUE)
    \/ \E t \in Callers, fault \in Faults : CleanDelete(t, fault)
    \/ \E name \in ForeignTargets : ForeignIndex(name)

Spec == Init /\ [][Next]_vars

NextConcurrent ==
    \/ \E client \in Clients, opts \in OptionLists : New(client, opts)
    \/ \E t \in Threads : LoadBegin(t, FALSE)
    \/ \E t \in Threads : LoadDelete(t, "none")
    \/ \E t \in Threads : LoadCreate(t, "none")
    \/ \E t \in Threads : LoadPopulate(t, "none")
    \/ \E t \in Threads : LoadRefresh(t, "none")
    \/ \E t \in Threads : CleanBegin(t, FALSE)
    \/ \E t \in Threads : CleanDelete(t, "none")

InitConcurrent == Init /\ store = [n \in Names |-> Stale]

SpecConcurrent == InitConcurrent /\ [][NextConcurrent]_vars

(***************************************************************************)
(* Properties of the call sequence of one invocation.                      *)
(***************************************************************************)
Rank(op) ==
    CASE op = "delete" -> 1 [] op = "create" -> 2 [] op = "bulk" -> 3 [] OTHER -> 4

\* a successful call op for the collection at position pos precedes call j
Preceded(calls, j, op, pos) ==
    \E i \in 1..(j - 1) : calls[i].op = op /\ calls[i].pos = pos /\ calls[i].ok

\* the error err carries the two consecutive parts a, b
Mentions(err, a, b) ==
    \E k \in 1..(Len(err) - 1) : err[k] = a /\ err[k + 1] = b

\* C1: in one Load, the calls for a collection come in the order delete,
\* create, bulk write, refresh, each at most once and each only after the
\* phases before it succeeded, and the collections are handled in Fixture Set
\* order: a call for the collection at position k+1 is issued only after the
\* refresh of the collection at position k returned success.
C1_LoadCallOrder ==
    \A t \in Threads : inv[t].op = "Load" =>
        LET calls == inv[t].calls IN
        /\ \A i \in 1..Len(calls) :
              /\ calls[i].op \in {"delete", "create", "bulk", "refresh"}
              /\ calls[i].pos \in 1..Len(Fixtures)
              /\ calls[i].name = Fixtures[calls[i].pos].name
        /\ \A i, j \in 1..Len(calls) : i < j =>
              \/ calls[i].pos < calls[j].pos
              \/ calls[i].pos = calls[j].pos /\ Rank(calls[i].op) < Rank(calls[j].op)
        /\ \A j \in 1..Len(calls) :
              LET c == calls[j] IN
              /\ c.pos > 1 => Preceded(calls, j, "refresh", c.pos - 1)
              /\ c.op = "create" => Preceded(calls, j, "delete", c.pos)
              /\ c.op = "bulk" => Preceded(calls, j, "create", c.pos)
              /\ c.op = "refresh" =>
                    /\ Preceded(calls, j, "create", c.pos)
                    /\ Fixtures[c.pos].documents # <<>> => Preceded(calls, j, "bulk", c.pos)

\* a Load went through two collections with documents: eight calls
C1_Witness ==
    \E t \in Threads :
        /\ inv[t].op = "Load" /\ inv[t].pc = "returned" /\ inv[t].err = NoErr
        /\ Len(Fixtures) = 2 /\ Len(inv[t].calls) = 8

\* C2: Load is fail-fast: a failed call is the last call of its invocation
\* (not retried, nothing issued after it) and the invocation has returned
\* an error.
C2_LoadFailFast ==
    \A t \in Threads : inv[t].op = "Load" =>
        LET calls == inv[t].calls IN
        \A i \in 1..Len(calls) : ~calls[i].ok =>
            /\ i = Len(calls)
            /\ inv[t].pc = "returned"
            /\ inv[t].err # NoErr

\* the create of the first of two collections failed and Load returned
C2_Witness ==
    \E t \in Threads :
        /\ inv[t].op = "Load" /\ inv[t].pc = "returned" /\ inv[t].err # NoErr
        /\ Len(Fixtures) = 2 /\ Len(inv[t].calls) = 2
        /\ inv[t].calls[2].op = "create" /\ ~inv[t].calls[2].ok

\* C3: Clean issues exactly one delete per collection, in Fixture Set order,
\* whatever the earlier deletes answered; it returns nil exactly when no
\* delete failed, and otherwise one error, wrapped once, that carries the
\* error of every delete that failed.
C3_CleanAggregates ==
    \A t \in Threads : inv[t].op = "Clean" =>
        LET calls == inv[t].calls
            failed == {i \in 1..Len(calls) : ~calls[i].ok}
        IN
        /\ \A i \in 1..Len(calls) :
              /\ calls[i].op = "delete"
              /\ calls[i].pos = i
              /\ i <= Len(Fixtures)
              /\ calls[i].name = Fixtures[i].name
        /\ Active(t) => Len(calls) < Len(Fixtures)
        /\ inv[t].pc = "returned" =>
              /\ Len(calls) = Len(Fixtures)
              /\ (inv[t].err = NoErr) <=> (failed = {})
              /\ Len(inv[t].errs) = Cardinality(failed)
              /\ failed # {} => SubSeq(inv[t].err, 1, 2) = <<"testfixtures", "cleaning up">>
              /\ \A i \in failed : Mentions(inv[t].err, "deleting index", calls[i].name)

\* the first delete failed, the second was still issued and succeeded
C3_Witness ==
    \E t \in Threads :
        /\ inv[t].op = "Clean" /\ inv[t].pc = "returned"
        /\ Len(inv[t].calls) = 2
        /\ ~inv[t].calls[1].ok /\ inv[t].calls[2].ok
        /\ inv[t].before[inv[t].calls[2].name].exists
        /\ ~store[inv[t].calls[2].name].exists

(***************************************************************************)
(* What "the store mirrors the fixture" means.                             *)
(***************************************************************************)
\* the record at position i is the one the store keeps for its id: it has
\* no explicit id, or no later record of the fixture declares the same id
Kept(docs, i) ==
    docs[i].ID = "" \/ ~\E j \in (i + 1)..Len(docs) : docs[j].ID = docs[i].ID

\* the stored form of the record at position i
Stored(docs, i) == [id |-> docs[i].ID, source |-> jsonMarshal(docs[i].Body).json]

\* the records a collection holds when it mirrors the fixture f
ExpectedDocs(f) ==
    LET docs == f.documents
        recs == {Stored(docs, i) : i \in {k \in 1..Len(docs) : Kept(docs, k)}}
    IN  [r \in recs |->
            Cardinality({i \in 1..Len(docs) : Kept(docs, i) /\ Stored(docs, i) = r})]

\* the sample payloads as the store holds them: the same JSON value,
\* written without insignificant white space
Canonical(raw) ==
    CASE raw = "{ 'number_of_replicas': 0 }" -> "{'number_of_replicas':0}"
      [] OTHER -> raw

JsonOf(payload) == IF payload = Nil THEN Nil ELSE Some(Canonical(payload[1]))

Mirrors(f) ==
    LET ix == store[f.name] IN
    /\ ix.exists
    /\ ix.mapping = JsonOf(f.mapping) /\ ix.settings = JsonOf(f.settings)
    /\ ix.docs = ExpectedDocs(f)
    /\ ~ix.unrefreshed

\* the claim's reading: one stored record per declared record
MirrorsByCount(f) ==
    LET ix == store[f.name] IN
    /\ ix.exists
    /\ ix.mapping = JsonOf(f.mapping) /\ ix.settings = JsonOf(f.settings)
    /\ BagCardinality(ix.docs) = Len(f.documents)
    /\ \A i \in 1..Len(f.documents) : BagIn(Stored(f.documents, i), ix.docs)
    /\ ~ix.unrefreshed

LoadSucceeded(t) ==
    inv[t].op = "Load" /\ inv[t].pc = "returned" /\ inv[t].err = NoErr

WithoutExtras(docs) == [d \in {x \in DOMAIN docs : x.source # ExtraSource} |-> docs[d]]

\* the number of records a collection holds for the fixture f: one for each
\* record without an explicit id, one for each distinct explicit id
DeclaredCount(f) == Cardinality({k \in 1..Len(f.documents) : Kept(f.documents, k)})

\* t returned from a successful Load that came right after another
\* successful Load on the same Loader
Reloaded(t) ==
    /\ LoadSucceeded(t) /\ ~inv[t].overlapped
    /\ hist[2].op = "Load" /\ hist[2].ok

CleanReturned(t) == inv[t].op = "Clean" /\ inv[t].pc = "returned"

FaultFree(t) == \A i \in 1..Len(inv[t].calls) : inv[t].calls[i].fault = "none"

\* C6: when a Clean returns success none of the Fixture Set's collections
\* exists in the store, in particular after a successful Load; and a Clean
\* that comes right after a successful Clean leaves the store as it was and,
\* the store answering its requests, returns success too.
C6_CleanIdempotent ==
    \A t \in Threads : CleanReturned(t) /\ ~inv[t].overlapped =>
        /\ inv[t].err = NoErr =>
              \A i \in 1..Len(Fixtures) : ~store[Fixtures[i].name].exists
        /\ hist[2].op = "Clean" /\ hist[2].ok /\ ~hist[2].tampered =>
              /\ store = inv[t].before
              /\ FaultFree(t) => inv[t].err = NoErr

\* Load, Clean, Clean: all three succeeded, the last on absent collections
C6_Witness ==
    \E t \in Threads :
        /\ CleanReturned(t) /\ inv[t].err = NoErr
        /\ hist[1].op = "Load" /\ hist[1].ok /\ ~hist[1].tampered
        /\ hist[2].op = "Clean" /\ hist[2].ok /\ ~hist[2].tampered
        /\ \A i \in 1..Len(inv[t].calls) : ~inv[t].calls[i].existed

\* C7: a delete request the store answers succeeds whether the collection
\* exists or not, in Load and in Clean; and a Load that no other invocation
\* overlaps always creates on an absent collection, so no call of it fails
\* because of what the store held before.
C7_DeleteAbsentOk ==
    \A t \in Threads : \A i \in 1..Len(inv[t].calls) :
        LET c == inv[t].calls[i] IN
        /\ c.op = "delete" /\ c.fault = "none" => c.ok
        /\ c.op = "create" /\ ~inv[t].overlapped => ~c.existed
        /\ ~inv[t].overlapped /\ c.fault = "none" => c.ok

\* a Load succeeded on a store that held none of its collections: its
\* deletes found nothing to delete
C7_Witness ==
    \E t \in Threads :
        /\ LoadSucceeded(t)
        /\ \A i \in 1..Len(Fixtures) : ~inv[t].before[Fixtures[i].name].exists
        /\ \E i \in 1..Len(inv[t].calls) :
              inv[t].calls[i].op = "delete" /\ ~inv[t].calls[i].existed /\ inv[t].calls[i].ok

(***************************************************************************)
(* Construction.                                                           *)
(***************************************************************************)
\* the directory path the options leave: that of the last Directory option
DirOf(opts) ==
    LET at == {i \in 1..Len(opts) : opts[i].kind = "Directory"} IN
    IF at = {} THEN "" ELSE opts[CHOOSE i \in at : \A j \in at : j <= i].arg

SubDirs(entries) == SelectSeq(entries, LAMBDA e : e.isDir)

DocCount(kids) ==
    SeqSum([i \in 1..Len(kids) |-> IF IsDocumentFile(kids[i]) THEN Len(kids[i].docs) ELSE 0])

HasFile(kids, fname) == \E i \in 1..Len(kids) : kids[i].name = fname /\ ~kids[i].isDir

\* a collection directory of dir holds a record-source file of invalid syntax
BadSyntax(dir) ==
    /\ dir \in DOMAIN disk
    /\ \E i \in 1..Len(disk[dir]) :
          /\ disk[dir][i].isDir
          /\ \E k \in 1..Len(disk[dir][i].kids) :
                IsDocumentFile(disk[dir][i].kids[k]) /\ ~disk[dir][i].kids[k].yamlOk

\* l holds one fixture per collection directory, in directory order, each
\* with all the records of its record-source files
FullyParsed(l) ==
    /\ l.dir \in DOMAIN disk
    /\ LET dirs == SubDirs(disk[l.dir]) IN
       /\ Len(dirs) > 0 /\ Len(l.fixtures) = Len(dirs)
       /\ \A k \in 1..Len(dirs) :
             /\ l.fixtures[k].name = dirs[k].name
             /\ Len(l.fixtures[k].documents) = DocCount(dirs[k].kids)
             /\ (l.fixtures[k].mapping # Nil) = HasFile(dirs[k].kids, mappingFile)
             /\ (l.fixtures[k].settings # Nil) = HasFile(dirs[k].kids, settingsFile)

\* C8: a call of New leaves the store and the invocations' call logs as
\* they are; when it returns an error it returns no Loader, and it returns
\* an error when a record-source file has invalid syntax; when it returns
\* no error the Loader holds a non-empty Fixture Set with every collection
\* directory parsed in full.
C8_NewTouchesNothing ==
    [][construct' # construct =>
          /\ store' = store /\ inv' = inv /\ hist' = hist
          /\ construct'.err # NoErr => loader' = Nil
          /\ BadSyntax(DirOf(construct'.opts)) /\ construct'.client # "nil" =>
                construct'.err # NoErr
          /\ construct'.err = NoErr =>
                /\ loader' # Nil
                /\ loader'[1].dir = DirOf(construct'.opts)
                /\ FullyParsed(loader'[1])]_vars

\* New ran the parser on a directory with an invalid record-source file and
\* returned an error and no Loader
C8_Witness ==
    /\ construct.called /\ construct.parserRan
    /\ BadSyntax(DirOf(construct.opts))
    /\ construct.err # NoErr /\ loader = Nil

\* C9: New returns a configuration error and no Loader, without running the
\* parser, when the client is nil and when the options leave the directory
\* path empty; a Loader built without WithContext holds the background
\* context.
C9_NewConfigErrors ==
    construct.called =>
        /\ construct.client = "nil" =>
              /\ loader = Nil /\ ~construct.parserRan
              /\ construct.err = <<"testfixtures: client must not be nil">>
        /\ construct.client # "nil" /\ DirOf(construct.opts) = "" =>
              /\ loader = Nil /\ ~construct.parserRan
              /\ construct.err = <<"testfixtures: Directory option is required">>
        /\ loader # Nil =>
              loader[1].ctx =
                 IF \E i \in 1..Len(construct.opts) : construct.opts[i].kind = "WithContext"
                 THEN "test-ctx" ELSE "background"

\* New was called with a client and a Directory option that a later one
\* emptied: it returned the configuration error
C9_Witness ==
    /\ construct.called /\ construct.client = "es"
    /\ Len(construct.opts) = 2 /\ DirOf(construct.opts) = ""
    /\ construct.err # NoErr /\ ~construct.parserRan /\ loader = Nil

(***************************************************************************)
(* Two goroutines on one Loader.                                           *)
(***************************************************************************)
\* C10: nothing in the Loader holds a Load back while another invocation is
\* under way; an invocation that no other overlapped keeps the guarantees
\* of a serial one (none of its calls fails, a successful Load leaves the
\* store mirroring the fixtures, a successful Clean leaves no collection);
\* the failures and the successes without a mirroring store are those of
\* overlapped invocations.
C10_NoLocking ==
    \A t \in Threads :
        /\ loader # Nil /\ ~Active(t) /\ runs < MaxRuns => ENABLED LoadBegin(t, FALSE)
        /\ ~inv[t].overlapped =>
              /\ \A i \in 1..Len(inv[t].calls) : inv[t].calls[i].ok
              /\ inv[t].pc = "returned" => inv[t].err = NoErr
              /\ LoadSucceeded(t) => \A i \in 1..Len(Fixtures) : Mirrors(Fixtures[i])
              /\ CleanReturned(t) => \A i \in 1..Len(Fixtures) : ~store[Fixtures[i].name].exists

\* two Loads ran at once: one failed, and the other has just returned
\* success with a collection that lacks the fixture's mapping, its create
\* having failed or its records having been written to a collection that
\* the write itself brought into being
C10_Witness ==
    \E t \in Threads :
        /\ LoadSucceeded(t) /\ inv[t].overlapped
        /\ hist[2].op = "Load" /\ ~hist[2].ok
        /\ \E i \in 1..Len(Fixtures) :
              /\ ~Mirrors(Fixtures[i])
              /\ store[Fixtures[i].name].exists
              /\ store[Fixtures[i].name].mapping # Fixtures[i].mapping

(***************************************************************************)
(* The parser on its own.  SpecParse starts from any of a family of        *)
(* fixture trees under one root and calls New on that root, which runs     *)
(* parseFixtures.  The root holds an optional file and up to two           *)
(* collection directories; the listing of a directory is put together from *)
(* optional entries in os.ReadDir order (sorted by name).                  *)
(***************************************************************************)
ParseRoot == "testdata/tree"

\* an _id that is the empty string
Ghost == ("_id" :> StrV("")) @@ ("name" :> StrV("Ghost"))

\* an integer _id of two digits
Dave == ("_id" :> IntV(42)) @@ ("name" :> StrV("Dave"))

Opt(e) == {<<>>, <<e>>}

\* entries that are no record source although they hold records: a
\* directory named like a record source, and a file of another extension
Noise ==
    << DirE("archive.yml", << YamlFile("old.yml", <<Bob>>) >>),
       FileE("notes.txt", "text", FALSE, TRUE, <<Bob>>) >>

UsersListings ==
    { s1 \o s2 \o h \o m \o g \o n :
        s1 \in Opt(YamlFile("01_first.yml", <<Alice, Laptop>>))
                  \cup {<<BadFile("01_first.yml")>>},
        s2 \in Opt(YamlFile("02_second.yaml", <<Carol, Ghost, Dave>>)),
        h \in Opt(YamlFile("_hidden.yml", <<Book>>)),
        m \in Opt(JsonFile(mappingFile, "users_mapping"))
                  \cup {<<FileE(mappingFile, "{invalid}", FALSE, FALSE, <<>>)>>},
        g \in Opt(JsonFile(settingsFile, "users_settings"))
                  \cup {<<FileE(settingsFile, "", FALSE, FALSE, <<>>)>>},
        n \in {<<>>, Noise} }

ProductsListings ==
    { <<>>,
      << JsonFile(mappingFile, "products_mapping"), YamlFile("documents.yml", <<Laptop>>) >>,
      << BadFile("documents.yml") >>,
      << FileE(settingsFile, "{invalid}", FALSE, FALSE, <<>>),
         YamlFile("documents.yml", <<Laptop>>) >> }

ParseTrees ==
    { f \o p \o u :
        f \in Opt(FileE("README.md", "text", FALSE, FALSE, <<>>)),
        p \in {<<>>} \cup {<<DirE("products", kids)>> : kids \in ProductsListings},
        u \in {<<>>} \cup {<<DirE("users", kids)>> : kids \in UsersListings} }

InitParse ==
    /\ disk \in {(ParseRoot :> tree) : tree \in ParseTrees}
    /\ store = [n \in Names |-> Absent]
    /\ loader = Nil
    /\ construct = NotConstructed
    /\ inv = [t \in Threads |-> Idle]
    /\ hist = <<NoEvent, NoEvent, NoEvent>>
    /\ runs = 0
    /\ ctxDone = FALSE

NextParse == New("es", <<Directory(ParseRoot)>>)

SpecParse == InitParse /\ [][NextParse]_vars

\* what New made of the tree under ParseRoot
Parsed == parseFixtures(disk, ParseRoot)

\* New has run the parser on the tree
ParserRan == construct.called /\ construct.parserRan

Tree == disk[ParseRoot]

(***************************************************************************)
(* What the fixture tree holds, read off the listings.                     *)
(***************************************************************************)
\* the entry is a record source by its kind and name
RecordSource(e) ==
    /\ ~e.isDir
    /\ \/ Len(e.name) >= 4 /\ SubSeq(e.name, Len(e.name) - 3, Len(e.name)) = ".yml"
       \/ Len(e.name) >= 5 /\ SubSeq(e.name, Len(e.name) - 4, Len(e.name)) = ".yaml"
    /\ SubSeq(e.name, 1, 1) # "_"

Sources(kids) == SelectSeq(kids, RecordSource)

\* the entry called fname of a listing, as a set of at most one entry
Named(kids, fname) == {kids[i] : i \in {k \in 1..Len(kids) : kids[k].name = fname}}

\* a collection directory nothing of which fails to parse
WellFormed(kids) ==
    /\ \A e \in Named(kids, mappingFile) \cup Named(kids, settingsFile) :
          ~e.isDir /\ e.jsonValid
    /\ \A i \in 1..Len(Sources(kids)) : Sources(kids)[i].yamlOk

\* the first collection directory of the tree that is not well-formed
FirstBad(tree) ==
    LET dirs == SubDirs(tree)
        bad == {k \in 1..Len(dirs) : ~WellFormed(dirs[k].kids)}
    IN  IF bad = {} THEN 0 ELSE CHOOSE k \in bad : \A j \in bad : k <= j

\* err carries the part a somewhere
HasPart(err, a) == \E k \in 1..Len(err) : err[k] = a

\* C11: a root with N >= 1 collection directories, all well-formed, parses
\* to exactly N fixtures, one per directory in listing order, named as the
\* directory, no two with the same name, whatever files the root holds
\* besides; a root without a directory fails with the error "no index
\* directories found".
C11_OneFixturePerDirectory ==
    ParserRan =>
        LET dirs == SubDirs(Tree) IN
        /\ Len(dirs) = 0 =>
              /\ loader = Nil
              /\ construct.err = <<"testfixtures", "no index directories found in", ParseRoot>>
        /\ Len(dirs) >= 1 /\ FirstBad(Tree) = 0 =>
              /\ construct.err = NoErr /\ loader # Nil
              /\ Len(Fixtures) = Len(dirs)
              /\ \A k \in 1..Len(dirs) : Fixtures[k].name = dirs[k].name
              /\ \A j, k \in 1..Len(dirs) : j # k => Fixtures[j].name # Fixtures[k].name

\* a root with a file and two collection directories gave two fixtures
C11_Witness ==
    /\ ParserRan /\ loader # Nil
    /\ \E i \in 1..Len(Tree) : ~Tree[i].isDir
    /\ Len(SubDirs(Tree)) = 2 /\ Len(Fixtures) = 2

(***************************************************************************)
(* Records.                                                                *)
(***************************************************************************)
\* the string form of an _id value
Canon(v) ==
    CASE v.t = "str" -> v.s
      [] v = IntV(1) -> "1"
      [] v = IntV(42) -> "42"

\* the source record without its _id
Strip(raw) == [k \in (DOMAIN raw) \ {"_id"} |-> raw[k]]

\* the Record a source record yields
RecordOf(raw) ==
    [ID |-> IF "_id" \in DOMAIN raw THEN Canon(raw["_id"]) ELSE "", Body |-> Strip(raw)]

\* the record-source files with valid content somewhere in the tree
ValidSources ==
    {e \in UNION {{d.kids[i] : i \in 1..Len(d.kids)} :
                     d \in {Tree[k] : k \in {j \in 1..Len(Tree) : Tree[j].isDir}}} :
        ~e.isDir /\ e.yamlOk}

\* C12: no record of a parsed Fixture Set has the key _id in its body, and
\* each is the Record of a source record of its directory; for every
\* record-source file, the record at position i has as id the string form
\* of the source record's _id and as body the source record without _id,
\* or, when the source record has no _id, the empty id and the whole
\* source record as body.
C12_IdentityExtraction ==
    /\ loader # Nil =>
          \A k \in 1..Len(Fixtures) : \A i \in 1..Len(Fixtures[k].documents) :
              /\ "_id" \notin DOMAIN Fixtures[k].documents[i].Body
              /\ \E e \in ValidSources : \E j \in 1..Len(e.docs) :
                    Fixtures[k].documents[i] = RecordOf(e.docs[j])
    /\ \A e \in ValidSources :
          LET r == parseYAMLDocuments(e) IN
          /\ r.err = NoErr /\ Len(r.docs) = Len(e.docs)
          /\ \A i \in 1..Len(e.docs) :
                IF "_id" \in DOMAIN e.docs[i]
                THEN /\ r.docs[i].ID = Canon(e.docs[i]["_id"])
                     /\ r.docs[i].Body = Strip(e.docs[i])
                ELSE /\ r.docs[i].ID = ""
                     /\ r.docs[i].Body = e.docs[i]

\* the parsed fixture of users holds the record of an integer _id, that of
\* an empty _id and one without _id
C12_Witness ==
    /\ ParserRan /\ loader # Nil
    /\ \E k \in 1..Len(Fixtures) :
          LET docs == Fixtures[k].documents IN
          /\ \E i \in 1..Len(docs) : docs[i] = [ID |-> "42", Body |-> ("name" :> StrV("Dave"))]
          /\ \E i \in 1..Len(docs) : docs[i] = [ID |-> "", Body |-> ("name" :> StrV("Ghost"))]
          /\ \E i \in 1..Len(docs) : docs[i] = [ID |-> "", Body |-> Laptop]

\* the source records of a listing's record sources, file after file
RECURSIVE Flatten(_)
Flatten(files) == IF files = <<>> THEN <<>> ELSE Head(files).docs \o Flatten(Tail(files))

\* C13: the records of a parsed collection are those of its record-source
\* files, file by file in listing order and in the order of each file: as
\* many as the files hold together, the i-th being the i-th source record.
C13_RecordsConcatenated ==
    loader # Nil =>
        \A k \in 1..Len(Fixtures) :
            LET files == Sources(SubDirs(Tree)[k].kids)
                flat == Flatten(files)
                docs == Fixtures[k].documents
            IN  /\ Len(docs) = SeqSum([i \in 1..Len(files) |-> Len(files[i].docs)])
                /\ Len(docs) = Len(flat)
                /\ \A i \in 1..Len(docs) : docs[i].Body = Strip(flat[i])

\* a collection with two record-source files: five records
C13_Witness ==
    /\ ParserRan /\ loader # Nil
    /\ \E k \in 1..Len(Fixtures) :
          /\ Len(Sources(SubDirs(Tree)[k].kids)) = 2
          /\ Len(Fixtures[k].documents) = 5

\* the source records an entry holds: its own, or those of the files in it
Holds(e) == IF e.isDir THEN Flatten(e.kids) ELSE e.docs

FieldFor(kids, fname) ==
    IF Named(kids, fname) = {} THEN Nil
    ELSE Some((CHOOSE e \in Named(kids, fname) : TRUE).raw)

Malformed(kids, fname) == \E e \in Named(kids, fname) : ~e.isDir /\ ~e.jsonValid

\* C15: in a parsed Fixture Set the mapping (settings) of a collection is
\* absent when the directory has no _mapping.json (_settings.json) and is
\* the content of the file when it has one; the absence of either file
\* fails nothing; and when the first directory that fails has a malformed
\* _mapping.json, or a well-formed or no _mapping.json and a malformed
\* _settings.json, the error names the path of that file.
C15_SchemaFiles ==
    ParserRan =>
        LET dirs == SubDirs(Tree)
            bad == FirstBad(Tree)
        IN
        /\ loader # Nil =>
              \A k \in 1..Len(dirs) :
                  /\ Fixtures[k].mapping = FieldFor(dirs[k].kids, mappingFile)
                  /\ Fixtures[k].settings = FieldFor(dirs[k].kids, settingsFile)
        /\ loader = Nil /\ Len(dirs) >= 1 =>
              /\ bad > 0
              /\ \/ Malformed(dirs[bad].kids, mappingFile)
                 \/ Malformed(dirs[bad].kids, settingsFile)
                 \/ \E i \in 1..Len(Sources(dirs[bad].kids)) : ~Sources(dirs[bad].kids)[i].yamlOk
        /\ bad > 0 /\ Malformed(dirs[bad].kids, mappingFile) =>
              /\ loader = Nil
              /\ Mentions(construct.err, "reading", mappingFile)
              /\ HasPart(construct.err, Join(Join(ParseRoot, dirs[bad].name), mappingFile))
        /\ bad > 0 /\ ~Malformed(dirs[bad].kids, mappingFile)
              /\ Malformed(dirs[bad].kids, settingsFile) =>
              /\ loader = Nil
              /\ Mentions(construct.err, "reading", settingsFile)
              /\ HasPart(construct.err, Join(Join(ParseRoot, dirs[bad].name), settingsFile))

\* users has a mapping file and an empty settings file: the parse failed
\* with an error naming the settings file
C15_Witness ==
    /\ ParserRan /\ loader = Nil
    /\ HasPart(construct.err, "testdata/tree/users/_settings.json")
    /\ \E k \in 1..Len(Tree) :
          /\ Tree[k].name = "users"
          /\ Named(Tree[k].kids, mappingFile) # {}
          /\ ~Malformed(Tree[k].kids, mappingFile)

\* C16: when a collection directory fails to parse, for a malformed
\* mapping or settings file or an invalid record-source file, New gets no
\* fixture at all from the parser and returns an error that names the
\* first directory that failed and, when it is a record source that
\* failed, the file.
C16_AllOrNothing ==
    ParserRan /\ FirstBad(Tree) > 0 =>
        LET d == SubDirs(Tree)[FirstBad(Tree)]
            badSources == {i \in 1..Len(Sources(d.kids)) : ~Sources(d.kids)[i].yamlOk}
        IN  /\ loader = Nil /\ construct.err # NoErr
            /\ Parsed.fixtures = <<>> /\ Parsed.err # NoErr
            /\ Mentions(construct.err, "parsing index", d.name)
            /\ ~Malformed(d.kids, mappingFile) /\ ~Malformed(d.kids, settingsFile) =>
                  \E i \in badSources :
                      /\ \A j \in badSources : i <= j
                      /\ Mentions(construct.err, "parsing document file", Sources(d.kids)[i].name)

\* products parsed with its record, then a record source of users failed:
\* no fixture, and the error names users and the file
C16_Witness ==
    /\ ParserRan /\ loader = Nil
    /\ FirstBad(Tree) = 2
    /\ Sources(SubDirs(Tree)[1].kids) # <<>>
    /\ Mentions(construct.err, "parsing index", "users")
    /\ Mentions(construct.err, "parsing document file", "01_first.yml")

(***************************************************************************)
(* The Loader's own state, the Create request and the Populate phase.      *)
(***************************************************************************)
\* C17: once New has returned a Loader, no step of a Load or a Clean, and
\* nothing else, changes its Fixture Set, its client or its context.
C17_LoaderImmutable == [][loader # Nil => loader' = loader]_vars

\* after a Load, a Clean and a failed Load the Loader still holds what the
\* parser made of its directory
C17_Witness ==
    /\ loader # Nil
    /\ hist[1].op = "Load" /\ hist[2].op = "Clean" /\ hist[3].op = "Load" /\ ~hist[3].ok
    /\ Len(Fixtures) = 2
    /\ Fixtures = parseFixtures(disk, loader[1].dir).fixtures
    /\ loader[1].client = "es"

\* the top-level keys the Create request of the fixture f has to carry
BodyKeys(f) ==
    {k \in {"mappings", "settings"} :
        \/ k = "mappings" /\ f.mapping # Nil
        \/ k = "settings" /\ f.settings # Nil}

\* C18: for every fixture of the Loader the Create request has no body
\* exactly when the fixture has neither mapping nor settings; otherwise
\* its body has the key "mappings" exactly when there is a mapping and the
\* key "settings" exactly when there are settings, no other key, and under
\* each key the JSON value of the fixture's file; and right after the
\* Create of a Load that nothing overlaps, the collection is new and has
\* that mapping and those settings.
C18_CreateBody ==
    loader # Nil =>
        /\ \A k \in 1..Len(Fixtures) :
              LET f == Fixtures[k]
                  b == buildCreateIndexBody(f.mapping, f.settings)
              IN  /\ b.err = NoErr
                  /\ (b.body = Nil) = (f.mapping = Nil /\ f.settings = Nil)
                  /\ b.body # Nil =>
                        /\ DOMAIN b.body[1] = BodyKeys(f)
                        /\ "mappings" \in BodyKeys(f) =>
                              b.body[1]["mappings"] = Canonical(f.mapping[1])
                        /\ "settings" \in BodyKeys(f) =>
                              b.body[1]["settings"] = Canonical(f.settings[1])
        /\ \A t \in Threads :
              inv[t].op = "Load" /\ inv[t].pc = "populate" /\ ~inv[t].overlapped =>
                  LET f == Fixtures[inv[t].idx] IN
                  store[f.name] = NewIndex(JsonOf(f.mapping), JsonOf(f.settings))

\* a Load has just created a collection from settings alone, written with
\* white space in the file
C18_Witness ==
    \E t \in Threads :
        /\ inv[t].op = "Load" /\ inv[t].pc = "populate"
        /\ Fixtures[inv[t].idx].mapping = Nil
        /\ Fixtures[inv[t].idx].settings = Some("{ 'number_of_replicas': 0 }")
        /\ store[Fixtures[inv[t].idx].name].settings = Some("{'number_of_replicas':0}")
        /\ store[Fixtures[inv[t].idx].name].mapping = Nil

\* the calls of t for the collection at position pos, in order
CallsAt(t, pos) == SelectSeq(inv[t].calls, LAMBDA c : c.pos = pos)

\* C19: bulkInsertDocuments with no documents returns no error without
\* opening an indexer or sending anything, whatever the store would have
\* answered; a Load issues no bulk request for a fixture without records
\* and goes from its create to its refresh; and after a successful Load
\* that nothing overlapped such a collection exists and is empty.
C19_EmptyPopulate ==
    /\ \A n \in Names, fault \in Faults :
          LET r == bulkInsertDocuments(store, n, <<>>, {}, fault,
                                       [heard |-> {}, stop |-> 1]) IN
          r.err = NoErr /\ r.store = store /\ ~r.sent /\ ~r.opened
    /\ \A t \in Threads : inv[t].op = "Load" =>
          /\ \A i \in 1..Len(inv[t].calls) :
                inv[t].calls[i].op = "bulk" => Fixtures[inv[t].calls[i].pos].documents # <<>>
          /\ \A k \in 1..Len(Fixtures) : Fixtures[k].documents = <<>> =>
                /\ Len(CallsAt(t, k)) <= 3
                /\ Len(CallsAt(t, k)) = 3 =>
                      /\ CallsAt(t, k)[2].op = "create" /\ CallsAt(t, k)[2].ok
                      /\ CallsAt(t, k)[3].op = "refresh"
                /\ LoadSucceeded(t) /\ ~inv[t].overlapped =>
                      /\ Len(CallsAt(t, k)) = 3
                      /\ store[Fixtures[k].name].exists
                      /\ store[Fixtures[k].name].docs = EmptyBag

\* a Load succeeded on a fixture without records whose collection held a
\* record before: three calls for it, and it is there and empty
C19_Witness ==
    \E t \in Threads :
        /\ LoadSucceeded(t)
        /\ \E k \in 1..Len(Fixtures) :
              /\ Fixtures[k].documents = <<>>
              /\ inv[t].before[Fixtures[k].name] = Stale
              /\ Len(CallsAt(t, k)) = 3
              /\ store[Fixtures[k].name].exists
              /\ store[Fixtures[k].name].docs = EmptyBag

\* the records of the store under the id
Under(ix, id) == {d \in BagToSet(ix.docs) : d.id = id}

EdgeRoot == "testdata/edge"

\* a record with a field that json.Marshal rejects
Nested == ("_id" :> StrV("9")) @@ ("tags" :> BadMapV)

EdgeDisk ==
    SampleDisk
    @@
    (EdgeRoot :>
        << DirE("products",
                << JsonFile(mappingFile, "products_mapping"),
                   YamlFile("documents.yml", <<Laptop, Book>>) >>),
           DirE("users",
                << YamlFile("documents.yml", <<Alice, Nested, Bob>>) >>) >>)

EdgeDirs == {"testdata/fixtures", EdgeRoot}

InitEdge ==
    /\ disk = EdgeDisk
    /\ store \in InitialStores
    /\ loader = Nil
    /\ construct = NotConstructed
    /\ inv = [t \in Threads |-> Idle]
    /\ hist = <<NoEvent, NoEvent, NoEvent>>
    /\ runs = 0
    /\ ctxDone = FALSE

\* the caller cancels the context it gave to WithContext
CancelContext ==
    /\ loader # Nil
    /\ loader[1].ctx = "test-ctx"
    /\ ~ctxDone
    /\ ctxDone' = TRUE
    /\ inv' = Settled
    /\ UNCHANGED <<disk, store, loader, construct, hist, runs>>

NextEdge ==
    \/ \E dir \in EdgeDirs : New("es", <<Directory(dir), WithContext("test-ctx")>>)
    \/ CancelContext
    \/ \E t \in Callers : LoadBegin(t, TRUE)
    \/ \E t \in Callers, fault \in Faults : LoadDelete(t, fault)
    \/ \E t \in Callers, fault \in Faults : LoadCreate(t, fault)
    \/ \E t \in Callers, fault \in BulkFaults : LoadPopulate(t, fault)
    \/ \E t \in Callers, fault \in Faults : LoadRefresh(t, fault)
    \/ \E t \in Callers : CleanBegin(t, TRUE)
    \/ \E t \in Callers, fault \in Faults : CleanDelete(t, fault)

SpecEdge == InitEdge /\ [][NextEdge]_vars

(***************************************************************************)
(* SpecTargets: the name of a fixture directory is used as it is for the   *)
(* index name of every request.  The fixture root testdata/multi holds a   *)
(* directory whose name holds a comma; nothing in parseFixtures or in the  *)
(* gateway helpers rejects or escapes it.                                  *)
(***************************************************************************)
MultiRoot == "testdata/multi"

MultiDisk ==
    (MultiRoot :>
        << DirE("products", << YamlFile("documents.yml", <<Laptop>>) >>),
           DirE("products,other", << YamlFile("documents.yml", <<Book>>) >>) >>)

InitTargets ==
    /\ disk = MultiDisk
    /\ store \in InitialStores
    /\ loader = Nil
    /\ construct = NotConstructed
    /\ inv = [t \in Threads |-> Idle]
    /\ hist = <<NoEvent, NoEvent, NoEvent>>
    /\ runs = 0
    /\ ctxDone = FALSE

NextTargets ==
    \/ New("es", <<Directory(MultiRoot)>>)
    \/ \E t \in Callers : LoadBegin(t, TRUE)
    \/ \E t \in Callers, fault \in Faults : LoadDelete(t, fault)
    \/ \E t \in Callers, fault \in Faults : LoadCreate(t, fault)
    \/ \E t \in Callers, fault \in BulkFaults : LoadPopulate(t, fault)
    \/ \E t \in Callers, fault \in Faults : LoadRefresh(t, fault)
    \/ \E t \in Callers : CleanBegin(t, TRUE)
    \/ \E t \in Callers, fault \in Faults : CleanDelete(t, fault)

SpecTargets == InitTargets /\ [][NextTargets]_vars

(***************************************************************************)
(* Claims C21 to C28.                                                      *)
(***************************************************************************)
\* the invocation of t is a Load and bulkInsertDocuments has run in it for
\* the collection it is at
Populated(t) ==
    /\ inv[t].op = "Load"
    /\ inv[t].pc \in {"refresh", "returned"}
    /\ inv[t].batch.name = Fixtures[inv[t].idx].name

\* the bulk call of the log of t for the collection at position pos, if any
BulkCalls(t, pos) ==
    {i \in 1..Len(inv[t].calls) : inv[t].calls[i].op = "bulk" /\ inv[t].calls[i].pos = pos}

\* the Load of t returned an error
LoadFailed(t) ==
    inv[t].op = "Load" /\ inv[t].pc = "returned" /\ inv[t].err # NoErr

\* C21: bulkInsertDocuments returns an error whenever a record of the batch
\* failed, be it that the store rejected items (OnFailure ran) or that the
\* whole bulk request failed (only NumFailed tells); Load then returns that
\* error and the log holds no refresh call for the collection.  When
\* bulkInsertDocuments returns no error for a non-empty fixture, no record
\* failed: every record was added, the request was sent, the store rejected
\* nothing and the request suffered no fault.
C21_PopulateFailsOnAnyFailure ==
    \A t \in Threads : Populated(t) =>
        LET b == inv[t].batch
            k == inv[t].idx
            calls == inv[t].calls
            failed == \/ b.rejected # {}
                      \/ \E i \in BulkCalls(t, k) : calls[i].fault # "none"
        IN  /\ failed =>
                /\ b.err # NoErr
                /\ LoadFailed(t)
                /\ inv[t].err = Wrap(<<"testfixtures">>, b.err)
                /\ \A i \in 1..Len(calls) : ~(calls[i].op = "refresh" /\ calls[i].pos = k)
                /\ calls[Len(calls)].op = "bulk" /\ ~calls[Len(calls)].ok
            /\ (b.err = NoErr /\ b.n > 0) =>
                /\ ~failed
                /\ b.added = b.n /\ b.sent /\ b.closed
                /\ \A i \in BulkCalls(t, k) : calls[i].ok
                /\ inv[t].pc = "refresh" =>
                      store[b.name].docs = ExpectedDocs(Fixtures[k])

\* a Load has returned an error of the bulk write because the whole request
\* failed, though the store rejected no single item
C21_Witness ==
    \E t \in Threads :
        /\ Populated(t) /\ LoadFailed(t)
        /\ inv[t].batch.rejected = {} /\ inv[t].batch.sent
        /\ HasPart(inv[t].err, "documents failed")

\* the messages that the error of bulkInsertDocuments carries after
\* "bulk insert errors for <index>"
Messages(err) ==
    IF Len(err) >= 2 /\ err[1] = "bulk insert errors for"
    THEN SubSeq(err, 3, Len(err)) ELSE <<>>

\* C22: when the store rejects k records of a batch, the error of
\* bulkInsertDocuments carries exactly k failure messages, one per rejected
\* record, none lost and none twice, also when the OnFailure callbacks run
\* on several goroutines at the same time.
C22_EveryFailureReported ==
    \A t \in Threads : (Populated(t) /\ inv[t].batch.rejected # {}) =>
        LET b == inv[t].batch
            msgs == Messages(b.err)
        IN  /\ Len(msgs) = Cardinality(b.rejected)
            /\ \A i \in b.rejected :
                  Cardinality({k \in 1..Len(msgs) : msgs[k] = FailureMessage(i)}) = 1

\* C23: with the context not cancelled, bulkInsertDocuments never returns
\* from the middle of a batch: for a non-empty fixture the BulkIndexer takes
\* every record and Close runs the batch to completion before the phase
\* returns, so no return leaves only a prefix of the records added or the
\* indexer open.
C23_BatchRunToCompletion ==
    \A t \in Threads : (Populated(t) /\ inv[t].batch.n > 0 /\ ~ctxDone) =>
        LET b == inv[t].batch IN
        /\ b.opened /\ b.closed
        /\ b.added = b.n

\* the phase of Load that an error message tells, "" when it tells none
PhaseOf(err) ==
    IF Len(err) < 2 THEN ""
    ELSE CASE err[2] = "deleting index" -> "delete"
           [] err[2] = "creating index" -> "create"
           [] err[2] \in {"bulk insert errors for", "bulk insert for",
                          "closing bulk indexer for", "creating bulk indexer for"}
                                        -> "populate"
           [] err[2] = "refreshing index" -> "refresh"
           [] OTHER -> ""

\* C24: every error that Load returns, also when the context is not
\* cancelled, names the collection it failed at and tells the phase that
\* failed, and every error that Clean returns names each collection whose
\* deletion failed.
C24_ErrorsNameCollection ==
    \A t \in Threads :
        /\ (LoadFailed(t) /\ ~ctxDone) =>
              /\ PhaseOf(inv[t].err) # ""
              /\ Len(inv[t].err) >= 3
              /\ inv[t].err[3] = Fixtures[inv[t].idx].name
        /\ (CleanReturned(t) /\ inv[t].err # NoErr) =>
              \A i \in 1..Len(inv[t].calls) : ~inv[t].calls[i].ok =>
                 Mentions(inv[t].err, "deleting index", inv[t].calls[i].name)

\* the step of the invocation of t, taken with the context cancelled
CancelledStep(t) ==
    LET old == inv[t]
        new == inv'[t]
        N == Len(Fixtures)
        made == Len(new.calls) = Len(old.calls) + 1
                /\ new.calls[Len(new.calls)].fault = "canceled"
                /\ ~new.calls[Len(new.calls)].ok
        stopped == /\ new.pc = "returned"
                   /\ new.err # NoErr
                   /\ HasPart(new.err, "context canceled")
    IN  CASE old.pc \in {"delete", "create", "refresh"} -> made /\ stopped
          [] old.pc = "populate" ->
                IF Fixtures[old.idx].documents = <<>>
                THEN new.pc = "refresh" /\ new.calls = old.calls
                ELSE /\ new.pc = "returned" /\ new.err # NoErr
                     /\ \/ HasPart(new.err, "context canceled")
                        \/ HasPart(new.err, "marshaling document")
                     /\ new.calls = old.calls
          [] old.pc = "clean" ->
                /\ made
                /\ new.calls[Len(new.calls)].name = Fixtures[old.idx].name
                /\ IF old.idx < N
                   THEN new.pc = "clean" /\ new.idx = old.idx + 1
                   ELSE /\ new.pc = "returned" /\ Len(new.calls) = N
                        /\ Len(new.errs) =
                              Cardinality({i \in 1..N : ~new.calls[i].ok})
                        /\ \A i \in 1..N : new.calls[i].fault = "canceled" =>
                              Mentions(new.err, "deleting index", new.calls[i].name)
          [] OTHER -> TRUE

At(st, name) == IF name \in DOMAIN st THEN st[name] ELSE Absent

\* the records of docs at the positions in W, in their order
RECURSIVE Pick(_, _, _)
Pick(docs, W, i) ==
    IF i > Len(docs) THEN <<>>
    ELSE (IF i \in W THEN <<docs[i]>> ELSE <<>>) \o Pick(docs, W, i + 1)

\* the collection of the fixture f is as a Load leaves it when it fails at
\* f: untouched (was: what it held before), deleted, created with no or
\* some of the records and not refreshed since they were written, or
\* holding all the records but not refreshed
Intermediate(f, was) ==
    LET ix == At(store, f.name) IN
    \/ ix = was
    \/ ix = Absent
    \/ /\ ix.exists
       /\ ix.mapping = JsonOf(f.mapping) /\ ix.settings = JsonOf(f.settings)
       /\ \E W \in SUBSET (1..Len(f.documents)) :
             /\ ix.docs = ExpectedDocs([f EXCEPT !.documents = Pick(f.documents, W, 1)])
             /\ ix.unrefreshed <=> W # {}

\* C26: when a Load fails at the collection at position k of the Fixture
\* Set, every collection before position k mirrors its fixture (exists,
\* schema, exactly the fixture's records, refreshed), every collection after
\* position k is as it was when the Load began, and collection k is
\* untouched, deleted, created with none or some of its records, or
\* populated but not refreshed.
C26_FailedLoadFrame ==
    \A t \in Threads : (LoadFailed(t) /\ ~inv[t].overlapped) =>
        LET k == inv[t].idx IN
        \A i \in 1..Len(Fixtures) :
            /\ i < k => Mirrors(Fixtures[i])
            /\ i > k => At(store, Fixtures[i].name) = At(inv[t].before, Fixtures[i].name)
            /\ i = k => Intermediate(Fixtures[i], At(inv[t].before, Fixtures[i].name))

\* the names of the collections of the Fixture Set of the Loader l
FixtureNames(l) == {l[1].fixtures[i].name : i \in 1..Len(l[1].fixtures)}

\* C27: Load and Clean address only collections named in the Fixture Set:
\* every call they make names a fixture collection, and a collection of the
\* store with another name is never deleted, created, written or refreshed:
\* no step of any sequence of Load and Clean calls changes it.
C27_OnlyFixtureCollections ==
    [][loader # Nil =>
          /\ \A n \in Names \ FixtureNames(loader) : store'[n] = store[n]
          /\ \A t \in Threads : \A i \in 1..Len(inv'[t].calls) :
                inv'[t].calls[i].name \in FixtureNames(loader)
      ]_vars

(***************************************************************************)
(* SpecFair: SpecEdge with the goroutine that runs Load or Clean           *)
(* scheduled and every gateway call returning: a step of an invocation     *)
(* that is enabled is eventually taken.                                    *)
(***************************************************************************)
\* the next step of the invocation of t, whatever the store answers
Step(t) ==
    \/ \E fault \in Faults : LoadDelete(t, fault)
    \/ \E fault \in Faults : LoadCreate(t, fault)
    \/ \E fault \in BulkFaults : LoadPopulate(t, fault)
    \/ \E fault \in Faults : LoadRefresh(t, fault)
    \/ \E fault \in Faults : CleanDelete(t, fault)

SpecFair == SpecEdge /\ \A t \in Callers : WF_vars(Step(t))

\* the gateway calls of an invocation stay within the bound of its operation
CallsBounded(t) ==
    LET N == Len(Fixtures)
        calls == Len(inv[t].calls)
    IN  /\ inv[t].op = "Load" => calls <= 4 * N
        /\ (inv[t].op = "Clean" /\ Active(t)) => calls < N
        /\ CleanReturned(t) => calls = N

\* C28: provided every gateway call returns, every invocation of Load and of
\* Clean returns, whatever mix of successes and failures the store answers
\* with; a Load makes at most 4N gateway calls for a Fixture Set of N
\* collections, and a Clean exactly N.
C28_Terminates ==
    /\ [](\A t \in Threads : inv[t].op # "none" => CallsBounded(t))
    /\ \A t \in Callers : Active(t) ~> inv[t].pc = "returned"

\* a Load of two collections has returned success after exactly 8 calls
C28_Witness ==
    \E t \in Threads :
        /\ LoadSucceeded(t)
        /\ Len(Fixtures) = 2
        /\ Len(inv[t].calls) = 8

====
